---- MODULE Spec2Model ----
\* Lead/inbox unification layer of the admin API: the lead resolver
\* (getOrCreateLead), the lead mutator (updateLeadStatusAndAssign) and the
\* inbox handlers (detail GET, PATCH, note, reply), in the two router
\* deployments found in the sources:
\*   "adminInbox"        routes/adminInbox.js (src/unnamed/part_004) on top of
\*                       utils/leadUtils.js (src/index.js 600-747)
\*   "websiteAdminInbox" routes/websiteAdminInbox.js (self-contained)
\* Every await on the database or on the mail provider is one step, so that
\* requests interleave exactly at the suspension points of the code.
EXTENDS Integers, Sequences, FiniteSets, TLC

\* ---------------------------------------------------------------- bounds
\* Total number of requests started in one run.
MaxRequests == 2
\* Inbox list: the rows of the filtered view, and the pages asked for.
MaxRows == 60
MaxPage == 3
\* Staff gate: total number of requests that reach the gate in one run.
MaxGateRequests == 3
\* Status cache: the clock advances TicksPerTtl times per cache interval, up
\* to MaxTicks times; at most MaxCacheCalls calls of loadInboxStatuses.
TicksPerTtl == 3
MaxTicks == 4
MaxCacheCalls == 3
\* Diploma students: total number of requests started in one run.
MaxDiplomaRequests == 3
\* Staff administration: total number of requests started in one run.
MaxStaffRequests == 3

\* ------------------------------------------------------------- constants
\* Two request tasks in flight at a time.
Procs == {1, 2}
Impls == {"adminInbox", "websiteAdminInbox"}

Null == "null"
Absent == "undefined"

ALLOWED_SOURCES ==
  {"applications", "course_preregistrations", "inquiries", "school_leads",
   "university_leads", "workshop_reservations"}

LEAD_STATUSES ==
  {"new", "in_review", "contacted", "qualified", "converted", "archived"}

\* Rows of the inbox_status lookup table (code, is_terminal): the six legacy
\* codes plus one code that only the data-driven registry knows.
InboxStatusTable ==
  {[code |-> "new", is_terminal |-> FALSE],
   [code |-> "in_review", is_terminal |-> FALSE],
   [code |-> "contacted", is_terminal |-> FALSE],
   [code |-> "qualified", is_terminal |-> FALSE],
   [code |-> "converted", is_terminal |-> TRUE],
   [code |-> "archived", is_terminal |-> TRUE],
   [code |-> "submitted", is_terminal |-> FALSE]}

RegistryCodes == {r.code : r \in InboxStatusTable}

\* The source rows that exist (created by the originating workflows).
SourceKeys == {<<"applications", "a1">>}
\* A row id of an allowed table under which no source row exists, and a path
\* whose table is outside the allow-list.
MissingKeys == {<<"applications", "a9">>}
RejectedKeys == {<<"staff", "a1">>}
\* The (source_table, source_id) paths of the requests; the pairs a lead can
\* be asked for are those that pass the allow-list.
RequestKeys == SourceKeys \cup MissingKeys \cup RejectedKeys
LeadKeys == {k \in RequestKeys : k[1] \in ALLOWED_SOURCES}

\* Mutant of Allowed: the handler forgets its allow-list check.
AllowsAnyTable(k) == TRUE

\* if (!ALLOWED_SOURCES.has(source_table)) return 400
Allowed(k) == k[1] \in ALLOWED_SOURCES

\* Request inputs.
StaffIds == {"s1", "s2"}
\* Status strings sent by clients: two legacy codes (one of them terminal), a
\* code only the data-driven registry knows, and a string that is no code.
LeadStatusInputs == {"contacted", "archived", "submitted", "bogus"}
SourceStatusInputs == {"contacted", "bogus"}
AssignedInputs == {Null, "s1", "s2"}
Ops == {"detail", "patch", "note", "reply"}

leadKindForSource(sourceTable) ==
  CASE sourceTable = "applications" -> "application"
    [] sourceTable = "course_preregistrations" -> "course_prereg"
    [] sourceTable = "inquiries" -> "general_inquiry"
    [] sourceTable = "school_leads" -> "school_lead"
    [] sourceTable = "university_leads" -> "university_partner"
    [] sourceTable = "workshop_reservations" -> "workshop_reservation"
    [] OTHER -> "general_inquiry"

\* JavaScript `a || b` on values that are a string, null or undefined.
Falsy(v) == v \in {Null, Absent, ""}
OrElse(a, b) == IF Falsy(a) THEN b ELSE a

safeLeadStatus(candidate) ==
  IF Falsy(candidate) THEN Null
  ELSE IF candidate \in LEAD_STATUSES THEN candidate ELSE Null

\* ----------------------------------------------------------------- state
VARIABLES
  impl,         \* which router deployment serves the requests of this run
  leads,        \* table leads: a set of rows
  events,       \* table lead_events: a set of rows
  source,       \* the source tables: key -> row (status, assigned_to, source_page)
  statusCache,  \* _statusCache of routes/adminInbox.js: "empty" or "fresh"
  emails,       \* number of e-mails handed to the mail provider
  started,      \* number of requests started so far
  pc,           \* per request task: the await it is suspended at
  loc,          \* per request task: its local variables
  resp,         \* per request task: the response sent
  returned,     \* history: key -> ids of the leads getOrCreateLead has returned
  listRows,     \* inbox list: number of rows of the view that pass the filters
  listQuery,    \* inbox list: the page and pageSize of the request being served
  listResponse, \* inbox list: the response sent
  gateImpl,     \* staff gate: which middleware guards the routes of this run
  staff,        \* staff gate: table staff, user_id -> row
  gateStarted,  \* staff gate: number of requests that reached the gate
  gatePc,       \* staff gate, per request task: the await it is suspended at
  gateLoc,      \* staff gate, per request task: token and locals
  gateOut,      \* staff gate, per request task: the outcome (next() or a status)
  clock,        \* status cache: Date.now(), in ms since the process started
  inbox_status, \* status cache: table inbox_status, the ordered list of codes
  cacheState,   \* status cache: _statusCache (at, ttlMs, list; set is list's)
  cachePc,      \* status cache, per caller: the await it is suspended at
  cacheLoc,     \* status cache, per caller: now, and the answer of the store
  cacheSeq,     \* status cache, history: number of calls and loads so far
  cacheCalls,   \* status cache, history: the calls made
  cacheLoads,   \* status cache, history: the successful loads completed
  resendConfigured, \* diploma: RESEND_API_KEY and RESEND_FROM are both set
  diploma_students, \* diploma: table diploma_students, a set of rows
  welcomeSent,  \* diploma: number of welcome e-mails the provider accepted
  dStarted,     \* diploma: number of requests started so far
  dPc,          \* diploma, per request task: the await it is suspended at
  dLoc,         \* diploma, per request task: its local variables
  dOut,         \* diploma, per request task: the response sent
  staffImpl,    \* staff admin: which version of websiteAdminStaff.js is mounted
  sStarted,     \* staff admin: number of requests started so far
  sPc,          \* staff admin, per request task: the await it is suspended at
  sLoc,         \* staff admin, per request task: its local variables
  sOut,         \* staff admin, per request task: the response sent
  inviteSent    \* staff admin: number of invite e-mails sent

\* The variables of the lead/inbox handlers, and those of the other parts.
inboxVars ==
  <<impl, leads, events, source, statusCache, emails, started, pc, loc, resp,
    returned>>
listVars == <<listRows, listQuery, listResponse>>
gateVars == <<gateImpl, staff, gateStarted, gatePc, gateLoc, gateOut>>
cacheVars ==
  <<clock, inbox_status, cacheState, cachePc, cacheLoc, cacheSeq, cacheCalls,
    cacheLoads>>
diplomaVars ==
  <<resendConfigured, diploma_students, welcomeSent, dStarted, dPc, dLoc, dOut>>
gateTasks == <<gateImpl, gateStarted, gatePc, gateLoc, gateOut>>
staffVars == <<staffImpl, sStarted, sPc, sLoc, sOut, inviteSent>>
otherVars == <<listVars, gateVars, cacheVars, diplomaVars, staffVars>>

vars == <<inboxVars, otherVars>>

NoLead ==
  [id |-> 0, kind |-> "", source_table |-> "", source_row_id |-> "",
   source_page |-> Null, assigned_to |-> Null, status |-> ""]
NoBody == [source_status |-> Absent, assigned_to |-> Absent, lead_status |-> Absent]
NoArgs == [assigned_to |-> Absent, source_page |-> Absent]
NoInbox == [found |-> FALSE, assigned_to |-> Null, source_page |-> Null]
NoUpdates == [status |-> Absent, assigned_to |-> Absent]
NoResp == [status |-> 0, code |-> "", detail |-> ""]

\* The locals of a request task. rid numbers the request; seq and alone are
\* history: seq, whether getOrCreateLead had already returned a lead for the
\* key when this request called it; alone, whether no other request was in
\* flight at any time since this request started.
InitLoc ==
  [op |-> "", key |-> <<"", "">>, body |-> NoBody, rid |-> 0, args |-> NoArgs,
   inbox |-> NoInbox, lead |-> NoLead, updated |-> NoLead, ret |-> "",
   updates |-> NoUpdates, seq |-> FALSE, alone |-> FALSE]

\* A query parameter is <<>> when absent and <<n>> when given as n.
NoListQuery == [page |-> <<>>, pageSize |-> <<>>, asked |-> FALSE]
NoListResponse == [status |-> 0, rows |-> {}, total |-> 0, page |-> 0, pageSize |-> 0]

\* The inbox list at rest.
ListIdle ==
  /\ listRows = 0
  /\ listQuery = NoListQuery
  /\ listResponse = NoListResponse

NoStaff == [user_id |-> "", auth0_sub |-> Null, email |-> Null, role |-> "", active |-> FALSE]
NoToken == [sub |-> Null, email |-> Null, valid |-> FALSE, user_id |-> ""]
NoGateLoc == [token |-> NoToken, byEmail |-> NoStaff]
NoGateOut == [status |-> 0, staff |-> NoStaff, token |-> NoToken]

\* The staff gate at rest.
GateIdle ==
  /\ gateImpl = "requireWebsiteStaff"
  /\ staff = [u \in {} |-> NoStaff]
  /\ gateStarted = 0
  /\ gatePc = [p \in Procs |-> "idle"]
  /\ gateLoc = [p \in Procs |-> NoGateLoc]
  /\ gateOut = [p \in Procs |-> NoGateOut]

\* _statusCache as the module is loaded; a list is <<>> (null) or <<l>>.
ttlMs == 30000
TickMs == ttlMs \div TicksPerTtl
NoList == <<>>
StatusLists == {<<"new">>, <<"new", "closed">>}
NoCacheLoc == [now |-> 0, error |-> FALSE, data |-> NoList]

CacheIdle ==
  /\ clock = 0
  /\ inbox_status = <<"new">>
  /\ cacheState = [at |-> 0, ttlMs |-> ttlMs, list |-> NoList]
  /\ cachePc = [p \in Procs |-> "idle"]
  /\ cacheLoc = [p \in Procs |-> NoCacheLoc]
  /\ cacheSeq = 0
  /\ cacheCalls = {}
  /\ cacheLoads = {}

\* The invite sub-object of a creation response (error: an error message is
\* present), a response and the locals of a diploma request.
NoInvite == [requested |-> FALSE, ok |-> FALSE, skipped |-> FALSE, error |-> FALSE]
NoDOut == [status |-> 0, code |-> "", op |-> "", student |-> 0, invite |-> NoInvite]
NoDLoc ==
  [op |-> "", email |-> "", send_invite |-> Absent, auth0_sub |-> Null, sub |-> Absent,
   student |-> 0]

DiplomaIdle ==
  /\ resendConfigured = TRUE
  /\ diploma_students = {}
  /\ welcomeSent = 0
  /\ dStarted = 0
  /\ dPc = [p \in Procs |-> "idle"]
  /\ dLoc = [p \in Procs |-> NoDLoc]
  /\ dOut = [p \in Procs |-> NoDOut]

\* The patch object, the locals and the response of a staff admin request.
NoSPatch == [active |-> Absent, email |-> Absent, auth0_sub |-> Absent]
NoSLoc == [op |-> "", email |-> "", user_id |-> "", patch |-> NoSPatch]
NoSOut == [status |-> 0, code |-> ""]

StaffIdle ==
  /\ staffImpl = "websiteAdminStaff"
  /\ sStarted = 0
  /\ sPc = [p \in Procs |-> "idle"]
  /\ sLoc = [p \in Procs |-> NoSLoc]
  /\ sOut = [p \in Procs |-> NoSOut]
  /\ inviteSent = 0

Init ==
  /\ ListIdle
  /\ GateIdle
  /\ CacheIdle
  /\ DiplomaIdle
  /\ StaffIdle
  /\ impl \in Impls
  /\ leads = {}
  /\ events = {}
  /\ source = [k \in SourceKeys |->
                 [status |-> "new", assigned_to |-> Null, source_page |-> "apply"]]
  /\ statusCache = "empty"
  /\ emails = 0
  /\ started = 0
  /\ pc = [p \in Procs |-> "idle"]
  /\ loc = [p \in Procs |-> InitLoc]
  /\ resp = [p \in Procs |-> NoResp]
  /\ returned = [k \in RequestKeys |-> {}]

\* ------------------------------------------------------- database access
LeadsFor(k) == {l \in leads : l.source_table = k[1] /\ l.source_row_id = k[2]}

\* .maybeSingle(): the row, or null when there is none.
SelectLead(k) == IF LeadsFor(k) = {} THEN NoLead ELSE CHOOSE l \in LeadsFor(k) : TRUE

\* The row a payload becomes: a generated id, and the column defaults.
NewLeadRow(payload) ==
  [id |-> Cardinality(leads) + 1, kind |-> payload.kind,
   source_table |-> payload.source_table, source_row_id |-> payload.source_row_id,
   source_page |-> payload.source_page, assigned_to |-> payload.assigned_to,
   status |-> "new"]

\* insert into leads: refused by the unique index on (source_table,
\* source_row_id) when a row for the pair exists.
InsertConflicts(payload) ==
  LeadsFor(<<payload.source_table, payload.source_row_id>>) # {}

\* upsert(payload, {onConflict: 'source_table,source_row_id'}): insert, or on
\* conflict set the payload's columns on the existing row (merge-duplicates).
UpsertRow(payload) ==
  LET k == <<payload.source_table, payload.source_row_id>> IN
  IF LeadsFor(k) = {} THEN NewLeadRow(payload)
  ELSE [SelectLead(k) EXCEPT !.kind = payload.kind,
                             !.source_page = payload.source_page,
                             !.assigned_to = payload.assigned_to]

\* Mutant of UpsertLeads: the upsert loses its conflict target and always
\* adds a row.
UpsertLeadsAlwaysInserts(payload) == leads \cup {NewLeadRow(payload)}

UpsertLeads(payload) ==
  LET k == <<payload.source_table, payload.source_row_id>> IN
  (leads \ LeadsFor(k)) \cup {UpsertRow(payload)}

\* update(...).eq('id', id) on leads.
UpdateLeads(id, updates) ==
  {IF l.id = id
     THEN [l EXCEPT !.status = IF updates.status = Absent THEN @ ELSE updates.status,
                    !.assigned_to = IF updates.assigned_to = Absent THEN @
                                    ELSE updates.assigned_to]
     ELSE l : l \in leads}

EventsOf(id) == {e \in events : e.lead_id = id}

\* A lead_events row; req is history: the request that wrote the row (it
\* stands for the row's generated id and created_at).
LeadEvent(lead_id, kind, title, from, to, rid) ==
  [lead_id |-> lead_id, event_kind |-> kind, title |-> title,
   from_status |-> from, to_status |-> to, req |-> rid]

SeedEvent(lead_id, rid) == LeadEvent(lead_id, "other", "Lead created", Null, Null, rid)

LeadPayload(k, args) ==
  [kind |-> leadKindForSource(k[1]), source_table |-> k[1], source_row_id |-> k[2],
   source_page |-> OrElse(args.source_page, Null),
   assigned_to |-> OrElse(args.assigned_to, Null)]

\* update(...).eq('id', source_id) on the source table; no row, no change.
UpdateSource(k, status, assigned_to) ==
  IF k \in DOMAIN source
    THEN [source EXCEPT ![k].status = IF status = Absent THEN @ ELSE status,
                        ![k].assigned_to = IF assigned_to = Absent THEN @ ELSE assigned_to]
    ELSE source

\* getInboxRow: the row of v_inbox_all for the source row, or null. The view
\* shows the source row's own columns.
InboxRowOf(k) ==
  IF k \in DOMAIN source
    THEN [found |-> TRUE, assigned_to |-> source[k].assigned_to,
          source_page |-> source[k].source_page]
    ELSE NoInbox

\* A storage call may fail at any time: the client then returns {error}
\* instead of throwing, and the caller decides what to do with it. Failure is
\* modelled where callers differ in what they do with it: the inserts into
\* lead_events, the mutator's update of leads, and the read of inbox_status.
StorageFails == TRUE

\* ------------------------------------------------------ request plumbing
\* The task goes on to its next await with locals l.
Goto(p, label, l) ==
  /\ pc' = [pc EXCEPT ![p] = label]
  /\ loc' = [loc EXCEPT ![p] = l]
  /\ UNCHANGED resp

\* The response is sent and the task ends.
Finish(p, status, code, detail) ==
  /\ pc' = [pc EXCEPT ![p] = "done"]
  /\ loc' = [loc EXCEPT ![p] = InitLoc]
  /\ resp' = [resp EXCEPT ![p] = [status |-> status, code |-> code, detail |-> detail]]

\* Entry of getOrCreateLead: runs to its first await.
ResolverEntry == IF impl = "adminInbox" THEN "g_select" ELSE "u_upsert"

CallResolver(l, args, ret) ==
  [l EXCEPT !.args = args, !.ret = ret, !.seq = returned[l.key] # {}]

\* getOrCreateLead returns `row` to the handler, which continues at loc.ret.
ResolverReturns(p, row) ==
  /\ Goto(p, loc[p].ret, [loc[p] EXCEPT !.lead = row])
  /\ returned' = [returned EXCEPT ![loc[p].key] = @ \cup {row.id}]

\* ----------------------------------- getOrCreateLead (utils/leadUtils.js)
\* select * from leads where (source_table, source_row_id) = key, maybeSingle;
\* an existing row is returned as it is.
GSelect(p) ==
  /\ pc[p] = "g_select"
  /\ LET existing == SelectLead(loc[p].key) IN
       IF existing.id # 0
         THEN ResolverReturns(p, existing)
         ELSE Goto(p, "g_insert", loc[p]) /\ UNCHANGED returned
  /\ UNCHANGED <<otherVars, impl, leads, events, source, statusCache, emails, started>>

\* insert(insertPayload).select('*').single(); `if (insErr) throw insErr`
\* reaches the handler's catch-all.
GInsert(p) ==
  /\ pc[p] = "g_insert"
  /\ LET payload == LeadPayload(loc[p].key, loc[p].args) IN
       IF InsertConflicts(payload)
         THEN /\ Finish(p, 500, "SERVER_ERROR", "duplicate key")
              /\ UNCHANGED leads
         ELSE /\ leads' = leads \cup {NewLeadRow(payload)}
              /\ Goto(p, "g_seed", [loc[p] EXCEPT !.lead = NewLeadRow(payload)])
  /\ UNCHANGED <<otherVars, impl, events, source, statusCache, emails, started, returned>>

\* The initial event: the insert's result is not looked at, so a failed insert
\* goes unnoticed and the lead is returned all the same.
GSeed(p) ==
  /\ pc[p] = "g_seed"
  /\ \/ events' = events \cup {SeedEvent(loc[p].lead.id, loc[p].rid)}
     \/ StorageFails /\ UNCHANGED events
  /\ ResolverReturns(p, loc[p].lead)
  /\ UNCHANGED <<otherVars, impl, leads, source, statusCache, emails, started>>

\* ------------------------------ getOrCreateLead (routes/websiteAdminInbox.js)
\* upsert(payload, {onConflict}).select('*').single()
UUpsert(p) ==
  /\ pc[p] = "u_upsert"
  /\ LET payload == LeadPayload(loc[p].key, loc[p].args) IN
       /\ leads' = UpsertLeads(payload)
       /\ Goto(p, "u_anyevent", [loc[p] EXCEPT !.lead = UpsertRow(payload)])
  /\ UNCHANGED <<otherVars, impl, events, source, statusCache, emails, started, returned>>

\* Mutant of UAnyEvent: the resolver does not look for an existing event and
\* always goes on to insert the seed.
UAnyEventAlwaysSeeds(p) ==
  /\ pc[p] = "u_anyevent"
  /\ Goto(p, "u_seed", loc[p])
  /\ UNCHANGED <<otherVars, impl, leads, events, source, statusCache, emails, started,
                 returned>>

\* select id from lead_events where lead_id = data.id limit 1
UAnyEvent(p) ==
  /\ pc[p] = "u_anyevent"
  /\ IF EventsOf(loc[p].lead.id) # {}
       THEN ResolverReturns(p, loc[p].lead)
       ELSE Goto(p, "u_seed", loc[p]) /\ UNCHANGED returned
  /\ UNCHANGED <<otherVars, impl, leads, events, source, statusCache, emails, started>>

\* The seed event, inserted when the lead had none; the result is not looked at.
USeed(p) ==
  /\ pc[p] = "u_seed"
  /\ \/ events' = events \cup {SeedEvent(loc[p].lead.id, loc[p].rid)}
     \/ StorageFails /\ UNCHANGED events
  /\ ResolverReturns(p, loc[p].lead)
  /\ UNCHANGED <<otherVars, impl, leads, source, statusCache, emails, started>>

\* ------------------------------------------------------------- detail GET
DetailInbox(p) ==
  /\ pc[p] = "d_inbox"
  /\ Goto(p, "d_source", [loc[p] EXCEPT !.inbox = InboxRowOf(loc[p].key)])
  /\ UNCHANGED <<otherVars, impl, leads, events, source, statusCache, emails, started, returned>>

\* The source row, .single(): 404 when it is absent; else getOrCreateLead with
\* assigned_to and source_page taken from the inbox row or the source row.
DetailSource(p) ==
  /\ pc[p] = "d_source"
  /\ LET k == loc[p].key IN
       IF k \notin DOMAIN source
         THEN Finish(p, 404, "NOT_FOUND", "")
         ELSE Goto(p, ResolverEntry,
                   CallResolver(loc[p],
                     [assigned_to |-> OrElse(loc[p].inbox.assigned_to,
                                             OrElse(source[k].assigned_to, Null)),
                      source_page |-> OrElse(loc[p].inbox.source_page,
                                             OrElse(source[k].source_page, Null))],
                     "d_events"))
  /\ UNCHANGED <<otherVars, impl, leads, events, source, statusCache, emails, started, returned>>

\* The lead's events are read and the response is sent.
DetailEvents(p) ==
  /\ pc[p] = "d_events"
  /\ Finish(p, 200, "OK", "")
  /\ UNCHANGED <<otherVars, impl, leads, events, source, statusCache, emails, started, returned>>

\* ------------------------------------------------------------------- note
\* Mutant of NoteEvent: the note replaces the lead's earlier events instead of
\* being added to them.
NoteEventRewritesLog(p) ==
  /\ pc[p] = "n_event"
  /\ events' = (events \ EventsOf(loc[p].lead.id))
                  \cup {LeadEvent(loc[p].lead.id, "note", "Note", Null, Null, loc[p].rid)}
  /\ Finish(p, 200, "OK", "")
  /\ UNCHANGED <<otherVars, impl, leads, source, statusCache, emails, started, returned>>

\* The note event; adminInbox: addLeadEvent throws on a failed insert (500
\* SERVER_ERROR); websiteAdminInbox: 500 SUPABASE_ERROR.
NoteEvent(p) ==
  /\ pc[p] = "n_event"
  /\ \/ /\ events' = events \cup {LeadEvent(loc[p].lead.id, "note", "Note", Null, Null, loc[p].rid)}
        /\ Finish(p, 200, "OK", "")
     \/ /\ StorageFails
        /\ Finish(p, 500, IF impl = "adminInbox" THEN "SERVER_ERROR" ELSE "SUPABASE_ERROR",
                  "storage")
        /\ UNCHANGED events
  /\ UNCHANGED <<otherVars, impl, leads, source, statusCache, emails, started, returned>>

\* ------------------------------------- status registry (routes/adminInbox.js)
\* assertValidStatusOrThrow over loadInboxStatuses: membership in the cached
\* set, which is the set of codes of inbox_status at the time of the load.
isValidStatus(statusValue) == statusValue \in RegistryCodes

\* Where a PATCH or reply goes once its statuses are validated.
AfterValidation(l) == IF l.op = "patch" THEN "p_inbox" ELSE ResolverEntry

EnterAfterValidation(l) ==
  IF l.op = "patch" THEN l ELSE CallResolver(l, NoArgs, "r_send")

\* Mutant of Validate: a failed read of inbox_status is taken for an empty
\* registry, and the status for invalid.
ValidateTakesFailureForInvalid(p, value, next, nextLoc) ==
  /\ \/ /\ statusCache' = "fresh"
        /\ IF isValidStatus(value)
             THEN Goto(p, next, nextLoc)
             ELSE Finish(p, 400, "INVALID_STATUS", "")
     \/ /\ statusCache = "empty"
        /\ StorageFails
        /\ Finish(p, 400, "INVALID_STATUS", "")
        /\ UNCHANGED statusCache
  /\ UNCHANGED <<otherVars, impl, leads, events, source, emails, started, returned>>

\* One await of assertValidStatusOrThrow(value): a fresh cache answers without
\* a query; otherwise inbox_status is read, and a failed read is thrown.
Validate(p, value, next, nextLoc) ==
  /\ \/ /\ statusCache' = "fresh"
        /\ IF isValidStatus(value)
             THEN Goto(p, next, nextLoc)
             ELSE Finish(p, 400, "INVALID_STATUS", "")
     \/ /\ statusCache = "empty"
        /\ StorageFails
        /\ Finish(p, 500, "SERVER_ERROR", "storage")
        /\ UNCHANGED statusCache
  /\ UNCHANGED <<otherVars, impl, leads, events, source, emails, started, returned>>

\* The cache interval of _statusCache elapses: the next validation reads
\* inbox_status again.
StatusCacheExpires ==
  /\ impl = "adminInbox"
  /\ statusCache = "fresh"
  /\ statusCache' = "empty"
  /\ UNCHANGED <<otherVars, impl, leads, events, source, emails, started, pc, loc, resp,
                 returned>>

ValidateSourceStatus(p) ==
  /\ pc[p] = "v_source"
  /\ IF loc[p].body.lead_status # Absent
       THEN Validate(p, loc[p].body.source_status, "v_lead", loc[p])
       ELSE Validate(p, loc[p].body.source_status, AfterValidation(loc[p]),
                     EnterAfterValidation(loc[p]))

ValidateLeadStatus(p) ==
  /\ pc[p] = "v_lead"
  /\ Validate(p, loc[p].body.lead_status, AfterValidation(loc[p]),
              EnterAfterValidation(loc[p]))

\* ------------------------------- updateLeadStatusAndAssign (utils/leadUtils.js)
\* The `updates` object, computed against the lead the caller holds.
MutatorUpdates(lead, to_status, assigned_to) ==
  [status |-> IF safeLeadStatus(to_status) # Null /\ safeLeadStatus(to_status) # lead.status
                THEN safeLeadStatus(to_status) ELSE Absent,
   assigned_to |-> IF assigned_to # Absent /\ assigned_to # lead.assigned_to
                     THEN OrElse(assigned_to, Null) ELSE Absent]

\* The mutator is entered with updates u: with nothing to update it returns
\* the held lead and the handler answers; else it awaits the update.
EnterMutator(p, u) ==
  IF u = NoUpdates
    THEN Finish(p, 200, "OK", "")
    ELSE Goto(p, "m_update", [loc[p] EXCEPT !.updates = u])

\* Mutant of MutatorUpdate: the update is a compare-and-swap on the lead the
\* caller holds, and a lead changed in the meantime is a conflict.
MutatorUpdateComparesAndSwaps(p) ==
  /\ pc[p] = "m_update"
  /\ IF loc[p].lead \in leads
       THEN /\ leads' = UpdateLeads(loc[p].lead.id, loc[p].updates)
            /\ Goto(p, IF loc[p].updates.status # Absent THEN "m_evstatus" ELSE "m_evassign",
                    loc[p])
       ELSE /\ Finish(p, 409, "CONFLICT", "")
            /\ UNCHANGED leads
  /\ UNCHANGED <<otherVars, impl, events, source, statusCache, emails, started, returned>>

\* update(updates).eq('id', lead.id).select('*').single(); an error is thrown.
MutatorUpdate(p) ==
  /\ pc[p] = "m_update"
  /\ \/ /\ leads' = UpdateLeads(loc[p].lead.id, loc[p].updates)
        /\ Goto(p, IF loc[p].updates.status # Absent THEN "m_evstatus" ELSE "m_evassign",
                loc[p])
     \/ /\ StorageFails
        /\ Finish(p, 500, "SERVER_ERROR", "storage")
        /\ UNCHANGED leads
  /\ UNCHANGED <<otherVars, impl, events, source, statusCache, emails, started, returned>>

\* Mutant of MutatorStatusEvent: a failed event insert undoes the update of
\* the leads row.
MutatorStatusEventRollsBack(p) ==
  /\ pc[p] = "m_evstatus"
  /\ \/ /\ events' = events \cup {LeadEvent(loc[p].lead.id, "status_change", "Status changed",
                                  loc[p].lead.status, loc[p].updates.status, loc[p].rid)}
        /\ IF loc[p].updates.assigned_to # Absent
             THEN Goto(p, "m_evassign", loc[p])
             ELSE Finish(p, 200, "OK", "")
        /\ UNCHANGED leads
     \/ /\ StorageFails
        /\ Finish(p, 500, "SERVER_ERROR", "storage")
        /\ leads' = UpdateLeads(loc[p].lead.id,
                                [status |-> loc[p].lead.status,
                                 assigned_to |-> loc[p].lead.assigned_to])
        /\ UNCHANGED events
  /\ UNCHANGED <<otherVars, impl, source, statusCache, emails, started, returned>>

\* addLeadEvent('status_change'), from the held lead's status to the new one.
MutatorStatusEvent(p) ==
  /\ pc[p] = "m_evstatus"
  /\ \/ /\ events' = events \cup {LeadEvent(loc[p].lead.id, "status_change", "Status changed",
                                  loc[p].lead.status, loc[p].updates.status, loc[p].rid)}
        /\ IF loc[p].updates.assigned_to # Absent
             THEN Goto(p, "m_evassign", loc[p])
             ELSE Finish(p, 200, "OK", "")
     \/ /\ StorageFails
        /\ Finish(p, 500, "SERVER_ERROR", "storage")
        /\ UNCHANGED events
  /\ UNCHANGED <<otherVars, impl, leads, source, statusCache, emails, started, returned>>

\* addLeadEvent('other', 'Assignment changed').
MutatorAssignEvent(p) ==
  /\ pc[p] = "m_evassign"
  /\ \/ /\ events' = events \cup {LeadEvent(loc[p].lead.id, "other", "Assignment changed",
                                  Null, Null, loc[p].rid)}
        /\ Finish(p, 200, "OK", "")
     \/ /\ StorageFails
        /\ Finish(p, 500, "SERVER_ERROR", "storage")
        /\ UNCHANGED events
  /\ UNCHANGED <<otherVars, impl, leads, source, statusCache, emails, started, returned>>

\* ----------------------------------------------- PATCH (routes/adminInbox.js)
PatchInbox(p) ==
  /\ pc[p] = "p_inbox"
  /\ LET row == InboxRowOf(loc[p].key) IN
       Goto(p, ResolverEntry,
            CallResolver([loc[p] EXCEPT !.inbox = row],
                         [assigned_to |-> OrElse(row.assigned_to, Null),
                          source_page |-> OrElse(row.source_page, Null)],
                         "p_srcupd"))
  /\ UNCHANGED <<otherVars, impl, leads, events, source, statusCache, emails, started, returned>>

\* The source row is updated with what the body gives, then the lead mutator
\* is called with the body's lead_status and assigned_to (the held lead's own
\* assigned_to when the body has none).
PatchSourceUpdate(p) ==
  /\ pc[p] = "p_srcupd"
  /\ LET b == loc[p].body
         lead == loc[p].lead
     IN
       /\ source' = UpdateSource(loc[p].key, b.source_status, b.assigned_to)
       /\ EnterMutator(p, MutatorUpdates(lead, b.lead_status,
                                         IF b.assigned_to # Absent THEN b.assigned_to
                                         ELSE lead.assigned_to))
  /\ UNCHANGED <<otherVars, impl, leads, events, statusCache, emails, started, returned>>

\* ----------------------------------------------- reply (routes/adminInbox.js)
ReplySend(p) ==
  /\ pc[p] = "r_send"
  /\ emails' = emails + 1
  /\ Goto(p, "r_log", loc[p])
  /\ UNCHANGED <<otherVars, impl, leads, events, source, statusCache, started, returned>>

\* addLeadEvent('email'): a failed insert is thrown.
ReplyLog(p) ==
  /\ pc[p] = "r_log"
  /\ \/ /\ events' = events \cup {LeadEvent(loc[p].lead.id, "email", "subject", Null, Null, loc[p].rid)}
        /\ Goto(p, "r_srcupd", loc[p])
     \/ /\ StorageFails
        /\ Finish(p, 500, "SERVER_ERROR", "storage")
        /\ UNCHANGED events
  /\ UNCHANGED <<otherVars, impl, leads, source, statusCache, emails, started, returned>>

\* The optional source status, then the optional lead status through the
\* mutator, called with the held lead's own assigned_to.
ReplySourceUpdate(p) ==
  /\ pc[p] = "r_srcupd"
  /\ LET b == loc[p].body
         lead == loc[p].lead
     IN
       /\ source' = UpdateSource(loc[p].key, b.source_status, Absent)
       /\ EnterMutator(p, IF Falsy(b.lead_status) THEN NoUpdates
                          ELSE MutatorUpdates(lead, b.lead_status, lead.assigned_to))
  /\ UNCHANGED <<otherVars, impl, leads, events, statusCache, emails, started, returned>>

\* ---------------------------------------- PATCH (routes/websiteAdminInbox.js)
\* The cheap uuid check: the staff ids are the well-formed uuids.
normalizeUuidOrNull(v) ==
  IF Falsy(v) THEN Null ELSE IF v \in StaffIds THEN v ELSE Null

\* leadUpdate: what the body gives, whatever the lead holds.
LeadUpdateOf(b) ==
  [status |-> b.lead_status,
   assigned_to |-> IF b.assigned_to = Absent THEN Absent
                   ELSE normalizeUuidOrNull(b.assigned_to)]

\* leads.status once was an enum of the six legacy codes and later text: an
\* update to another value is refused by the former and taken by the latter.
EnumMayRefuse(status) == status # Absent /\ status \notin LEAD_STATUSES

WPatchInbox(p) ==
  /\ pc[p] = "wp_inbox"
  /\ Goto(p, ResolverEntry,
          CallResolver([loc[p] EXCEPT !.inbox = InboxRowOf(loc[p].key)], NoArgs,
                       "wp_srcupd"))
  /\ UNCHANGED <<otherVars, impl, leads, events, source, statusCache, emails, started, returned>>

WPatchSourceUpdate(p) ==
  /\ pc[p] = "wp_srcupd"
  /\ LET b == loc[p].body
         u == LeadUpdateOf(b)
     IN
       /\ source' = UpdateSource(loc[p].key, b.source_status, u.assigned_to)
       /\ IF u = NoUpdates
            THEN Finish(p, 200, "OK", "")
            ELSE Goto(p, "wp_leadupd", [loc[p] EXCEPT !.updates = u])
  /\ UNCHANGED <<otherVars, impl, leads, events, statusCache, emails, started, returned>>

\* update(leadUpdate).eq('id', lead.id).select('*').single()
WPatchLeadUpdate(p) ==
  /\ pc[p] = "wp_leadupd"
  /\ \/ /\ leads' = UpdateLeads(loc[p].lead.id, loc[p].updates)
        /\ Goto(p, "wp_event",
                [loc[p] EXCEPT !.updated =
                   CHOOSE l \in UpdateLeads(loc[p].lead.id, loc[p].updates) :
                     l.id = loc[p].lead.id])
     \/ /\ EnumMayRefuse(loc[p].updates.status)
        /\ Finish(p, 400, "BAD_REQUEST", "Failed to update lead")
        /\ UNCHANGED leads
  /\ UNCHANGED <<otherVars, impl, events, source, statusCache, emails, started, returned>>

\* The event log: one 'status_change' event titled 'Updated' for any lead
\* update; the insert's result is not looked at.
WPatchEvent(p) ==
  /\ pc[p] = "wp_event"
  /\ \/ events' = events \cup {LeadEvent(loc[p].lead.id, "status_change", "Updated",
                               loc[p].lead.status, loc[p].updated.status, loc[p].rid)}
     \/ StorageFails /\ UNCHANGED events
  /\ Finish(p, 200, "OK", "")
  /\ UNCHANGED <<otherVars, impl, leads, source, statusCache, emails, started, returned>>

\* ---------------------------------------- reply (routes/websiteAdminInbox.js)
\* The e-mail is sent first, then the lead is resolved.
WReplySend(p) ==
  /\ pc[p] = "wr_send"
  /\ emails' = emails + 1
  /\ Goto(p, ResolverEntry, CallResolver(loc[p], NoArgs, "wr_log"))
  /\ UNCHANGED <<otherVars, impl, leads, events, source, statusCache, started, returned>>

WReplyLog(p) ==
  /\ pc[p] = "wr_log"
  /\ \/ events' = events \cup {LeadEvent(loc[p].lead.id, "email", "subject", Null, Null, loc[p].rid)}
     \/ StorageFails /\ UNCHANGED events
  /\ Goto(p, "wr_srcupd", loc[p])
  /\ UNCHANGED <<otherVars, impl, leads, source, statusCache, emails, started, returned>>

WReplySourceUpdate(p) ==
  /\ pc[p] = "wr_srcupd"
  /\ source' = UpdateSource(loc[p].key, loc[p].body.source_status, Absent)
  /\ IF Falsy(loc[p].body.lead_status)
       THEN Finish(p, 200, "OK", "")
       ELSE Goto(p, "wr_leadupd", loc[p])
  /\ UNCHANGED <<otherVars, impl, leads, events, statusCache, emails, started, returned>>

\* update({status: set_lead_status}).eq('id', lead.id): no event is written.
WReplyLeadUpdate(p) ==
  /\ pc[p] = "wr_leadupd"
  /\ \/ /\ leads' = UpdateLeads(loc[p].lead.id,
                                [status |-> loc[p].body.lead_status, assigned_to |-> Absent])
        /\ Finish(p, 200, "OK", "")
     \/ /\ EnumMayRefuse(loc[p].body.lead_status)
        /\ Finish(p, 400, "BAD_REQUEST", "Failed to update lead status")
        /\ UNCHANGED leads
  /\ UNCHANGED <<otherVars, impl, events, source, statusCache, emails, started, returned>>

\* --------------------------------------------------------------- requests
\* The bodies a request may carry: PATCH {source_status?, assigned_to?,
\* lead_status?}, reply {set_source_status?, set_lead_status?}.
Body(source_status, assigned_to, lead_status) ==
  [source_status |-> source_status, assigned_to |-> assigned_to,
   lead_status |-> lead_status]

PatchBodies ==
  {Body(Absent, Absent, Absent)}
    \cup {Body(Absent, Absent, s) : s \in LeadStatusInputs}
    \cup {Body(Absent, a, Absent) : a \in AssignedInputs}
    \cup {Body(s, Absent, Absent) : s \in SourceStatusInputs}
    \cup {Body(Absent, "s1", "contacted"), Body("contacted", Absent, "contacted")}

ReplyBodies ==
  {Body(Absent, Absent, Absent)}
    \cup {Body(Absent, Absent, s) : s \in {"contacted", "bogus"}}
    \cup {Body(s, Absent, Absent) : s \in SourceStatusInputs}

Bodies(op) ==
  CASE op = "patch" -> PatchBodies
    [] op = "reply" -> ReplyBodies
    [] OTHER -> {NoBody}

\* The handler runs from the route to its first await.
FirstAwait(l) ==
  CASE l.op = "detail" -> "d_inbox"
    [] l.op = "note" -> ResolverEntry
    [] l.op = "patch" /\ impl = "websiteAdminInbox" -> "wp_inbox"
    [] l.op = "reply" /\ impl = "websiteAdminInbox" -> "wr_send"
    [] OTHER -> IF l.body.source_status # Absent THEN "v_source"
                ELSE IF l.body.lead_status # Absent THEN "v_lead"
                ELSE AfterValidation(l)

AtFirstAwait(l) ==
  CASE l.op = "note" -> CallResolver(l, NoArgs, "n_event")
    [] l.op = "reply" /\ impl = "adminInbox" /\ FirstAwait(l) = ResolverEntry ->
         CallResolver(l, NoArgs, "r_send")
    [] OTHER -> l

InFlight(q) == pc[q] \notin {"idle", "done"}

\* The task slots are interchangeable: a request takes the first idle one.
FirstIdle(p) == \A q \in Procs : q < p => pc[q] # "idle"

Start(p) ==
  /\ pc[p] = "idle"
  /\ FirstIdle(p)
  /\ started < MaxRequests
  /\ \E op \in Ops, k \in RequestKeys :
       \E b \in Bodies(op) :
         /\ Allowed(k)
         /\
            LET l == [InitLoc EXCEPT !.op = op, !.key = k, !.body = b,
                                     !.rid = started + 1,
                                     !.alone = \A q \in Procs \ {p} : ~InFlight(q)]
            IN /\ loc' = [q \in Procs |->
                            IF q = p THEN AtFirstAwait(l)
                            ELSE IF InFlight(q) THEN [loc[q] EXCEPT !.alone = FALSE]
                            ELSE loc[q]]
               /\ pc' = [pc EXCEPT ![p] = FirstAwait(l)]
  /\ started' = started + 1
  /\ UNCHANGED <<otherVars, impl, leads, events, source, statusCache, emails, resp, returned>>

\* The allow-list check at the top of every handler, before its first await:
\* a source_table outside ALLOWED_SOURCES is answered 400 at once.
Reject(p) ==
  /\ pc[p] = "idle"
  /\ FirstIdle(p)
  /\ started < MaxRequests
  /\ \E op \in Ops, k \in RequestKeys :
       /\ ~Allowed(k)
       /\ Finish(p, 400, "BAD_REQUEST", "Unsupported source_table")
  /\ started' = started + 1
  /\ UNCHANGED <<otherVars, impl, leads, events, source, statusCache, emails, returned>>

\* The response is out; the task slot takes the next request.
Recycle(p) ==
  /\ pc[p] = "done"
  /\ started < MaxRequests
  /\ pc' = [pc EXCEPT ![p] = "idle"]
  /\ resp' = [resp EXCEPT ![p] = NoResp]
  /\ UNCHANGED <<otherVars, impl, leads, events, source, statusCache, emails, started, loc,
                 returned>>

Next ==
  \/ StatusCacheExpires
  \/ \E p \in Procs :
    \/ Start(p)
    \/ Reject(p)
    \/ Recycle(p)
    \/ GSelect(p)
    \/ GInsert(p)
    \/ GSeed(p)
    \/ UUpsert(p)
    \/ UAnyEvent(p)
    \/ USeed(p)
    \/ DetailInbox(p)
    \/ DetailSource(p)
    \/ DetailEvents(p)
    \/ NoteEvent(p)
    \/ ValidateSourceStatus(p)
    \/ ValidateLeadStatus(p)
    \/ MutatorUpdate(p)
    \/ MutatorStatusEvent(p)
    \/ MutatorAssignEvent(p)
    \/ PatchInbox(p)
    \/ PatchSourceUpdate(p)
    \/ ReplySend(p)
    \/ ReplyLog(p)
    \/ ReplySourceUpdate(p)
    \/ WPatchInbox(p)
    \/ WPatchSourceUpdate(p)
    \/ WPatchLeadUpdate(p)
    \/ WPatchEvent(p)
    \/ WReplySend(p)
    \/ WReplyLog(p)
    \/ WReplySourceUpdate(p)
    \/ WReplyLeadUpdate(p)

Spec == Init /\ [][Next]_vars

\* ------------------------------------------------------- the handlers at rest
\* The lead/inbox tables and tasks as Init leaves them: the state in which
\* the other parts of the API are looked at on their own.
InboxIdle ==
  /\ impl \in Impls
  /\ leads = {}
  /\ events = {}
  /\ source = [k \in SourceKeys |->
                 [status |-> "new", assigned_to |-> Null, source_page |-> "apply"]]
  /\ statusCache = "empty"
  /\ emails = 0
  /\ started = 0
  /\ pc = [p \in Procs |-> "idle"]
  /\ loc = [p \in Procs |-> InitLoc]
  /\ resp = [p \in Procs |-> NoResp]
  /\ returned = [k \in RequestKeys |-> {}]

\* ------------------------------------------------- inbox list (GET /inbox)
\* The page-size arithmetic of the two routers.
PageSizeCap == 100
DefaultPageSize == 25
AdminInboxMinPageSize == 10
WebsiteMinPageSize == 1

Max(a, b) == IF a >= b THEN a ELSE b
Min(a, b) == IF a <= b THEN a ELSE b

\* The values of the page and pageSize query parameters.
PageInputs == {<<>>} \cup {<<n>> : n \in 1 .. MaxPage}
PageSizeInputs == {<<>>} \cup {<<n>> : n \in {1, 5, 10, 25, 100, 101, 150}}

\* Math.max(1, parseInt(req.query.page || '1', 10))
PageOf(query) == IF query.page = <<>> THEN 1 ELSE Max(1, query.page[1])

\* Math.min(100, Math.max(10, parseInt(req.query.pageSize || '25', 10))) in
\* routes/adminInbox.js; Math.max(1, ...) in routes/websiteAdminInbox.js.
PageSizeOf(query) ==
  LET asked == IF query.pageSize = <<>> THEN DefaultPageSize ELSE query.pageSize[1]
      floor == IF impl = "adminInbox" THEN AdminInboxMinPageSize
               ELSE WebsiteMinPageSize
  IN Min(PageSizeCap, Max(floor, asked))

\* query.range(from, to) over the view ordered by created_at descending: the
\* rows at 0-based offsets from..to, named by their 1-based position in that
\* order; count is the number of rows that pass the filters.
RangeOf(from, to) == {i \in 1 .. listRows : from + 1 <= i /\ i <= to + 1}

\* A list request arrives.
ListAsk ==
  /\ ~listQuery.asked
  /\ \E page \in PageInputs, pageSize \in PageSizeInputs :
       listQuery' = [page |-> page, pageSize |-> pageSize, asked |-> TRUE]
  /\ listResponse' = NoListResponse
  /\ UNCHANGED <<inboxVars, gateVars, cacheVars, diplomaVars, staffVars, listRows>>

\* The handler computes the range, runs the query and answers.
ListInbox ==
  /\ listQuery.asked
  /\ LET page == PageOf(listQuery)
         pageSize == PageSizeOf(listQuery)
         from == (page - 1) * pageSize
         to == from + pageSize - 1
     IN listResponse' = [status |-> 200, rows |-> RangeOf(from, to),
                         total |-> listRows, page |-> page, pageSize |-> pageSize]
  /\ listQuery' = [listQuery EXCEPT !.asked = FALSE]
  /\ UNCHANGED <<inboxVars, gateVars, cacheVars, diplomaVars, staffVars, listRows>>

InitList ==
  /\ InboxIdle
  /\ GateIdle
  /\ CacheIdle
  /\ listRows \in 0 .. MaxRows
  /\ listQuery = NoListQuery
  /\ listResponse = NoListResponse
  /\ DiplomaIdle
  /\ StaffIdle

NextList == ListAsk \/ ListInbox

SpecList == InitList /\ [][NextList]_vars

\* ---------------------------------------------------------- the staff gate
\* requireWebsiteStaff (middleware/requireWebsiteStaff.js) resolves the staff
\* row by the token's sub, else by its e-mail, linking an unlinked row;
\* requireStaff (middleware/requireStaff.js) resolves it by the user id of the
\* token's Supabase user and also checks the role.
GateImpls == {"requireWebsiteStaff", "requireStaff"}

Subs == {"sub_a", "sub_b"}
\* E-mail claims as they come in the token, and what normalizeEmail makes of
\* them: trimmed and lower-cased, null when empty or no string.
TokenEmails == {Null, "ann@x.io", " Ann@X.io ", "eve@x.io"}
normalizeEmail(v) ==
  CASE v = "ann@x.io" -> "ann@x.io"
    [] v = " Ann@X.io " -> "ann@x.io"
    [] v = "eve@x.io" -> "eve@x.io"
    [] OTHER -> Null

StaffIdsOfGate == {"u1"}
UserIds == {"u1", "u9"}
allowedRoles == {"admin", "super_admin"}

\* The tokens a request may carry. For requireWebsiteStaff: the decoded sub
\* (null when missing) and e-mail claim; for requireStaff: whether
\* auth.getUser accepts the token, and the user's id.
Tokens ==
  IF gateImpl = "requireWebsiteStaff"
    THEN {[sub |-> s, email |-> e, valid |-> TRUE, user_id |-> ""] :
            s \in Subs \cup {Null}, e \in TokenEmails}
    ELSE {[sub |-> Null, email |-> Null, valid |-> v, user_id |-> u] :
            v \in BOOLEAN, u \in UserIds}

\* .eq(column, value).maybeSingle() on staff: the row, or null.
StaffBySub(sub) ==
  IF \E u \in DOMAIN staff : staff[u].auth0_sub = sub
    THEN staff[CHOOSE u \in DOMAIN staff : staff[u].auth0_sub = sub]
    ELSE NoStaff
StaffByEmail(email) ==
  IF \E u \in DOMAIN staff : staff[u].email = email
    THEN staff[CHOOSE u \in DOMAIN staff : staff[u].email = email]
    ELSE NoStaff
StaffByUserId(id) == IF id \in DOMAIN staff THEN staff[id] ELSE NoStaff

GateGoto(p, label, l) ==
  /\ gatePc' = [gatePc EXCEPT ![p] = label]
  /\ gateLoc' = [gateLoc EXCEPT ![p] = l]
  /\ UNCHANGED gateOut

\* The gate answers with a status and the task ends.
GateAnswer(p, status) ==
  /\ gatePc' = [gatePc EXCEPT ![p] = "done"]
  /\ gateLoc' = [gateLoc EXCEPT ![p] = NoGateLoc]
  /\ gateOut' = [gateOut EXCEPT ![p] = [status |-> status, staff |-> NoStaff,
                                        token |-> gateLoc[p].token]]

\* if (!staff || !staff.active) 403; else req.staff = staff; next().
GateDecide(p, row) ==
  IF row.user_id = "" \/ ~row.active
    THEN GateAnswer(p, 403)
    ELSE /\ gatePc' = [gatePc EXCEPT ![p] = "done"]
         /\ gateLoc' = [gateLoc EXCEPT ![p] = NoGateLoc]
         /\ gateOut' = [gateOut EXCEPT ![p] = [status |-> 200, staff |-> row,
                                               token |-> gateLoc[p].token]]

\* A request reaches the gate and runs to its first await.
GateStart(p) ==
  /\ gatePc[p] = "idle"
  /\ \A q \in Procs : q < p => gatePc[q] # "idle"
  /\ gateStarted < MaxGateRequests
  /\ gateStarted' = gateStarted + 1
  /\ \E t \in Tokens :
       IF gateImpl = "requireWebsiteStaff"
         THEN IF t.sub = Null
                THEN /\ gatePc' = [gatePc EXCEPT ![p] = "done"]
                     /\ gateOut' = [gateOut EXCEPT ![p] =
                                      [status |-> 401, staff |-> NoStaff, token |-> t]]
                     /\ UNCHANGED gateLoc
                ELSE GateGoto(p, "by_sub", [NoGateLoc EXCEPT !.token = t])
         ELSE GateGoto(p, "get_user", [NoGateLoc EXCEPT !.token = t])
  /\ UNCHANGED <<inboxVars, listVars, cacheVars, diplomaVars, staffVars,
                 gateImpl, staff>>

\* 1) lookup by auth0_sub; without a row and with a token e-mail the handler
\* goes on to the lookup by e-mail.
GateBySub(p) ==
  /\ gatePc[p] = "by_sub"
  /\ \/ LET row == StaffBySub(gateLoc[p].token.sub) IN
          IF row.user_id = "" /\ normalizeEmail(gateLoc[p].token.email) # Null
            THEN GateGoto(p, "by_email", gateLoc[p])
            ELSE GateDecide(p, row)
     \/ StorageFails /\ GateAnswer(p, 500)
  /\ UNCHANGED <<inboxVars, listVars, cacheVars, diplomaVars, staffVars,
                 gateImpl, staff, gateStarted>>

\* 2) lookup by e-mail: a row without auth0_sub is to be linked, any other
\* row (or none) is what the gate decides on.
GateByEmail(p) ==
  /\ gatePc[p] = "by_email"
  /\ \/ LET byEmail == StaffByEmail(normalizeEmail(gateLoc[p].token.email)) IN
          IF byEmail.user_id # "" /\ byEmail.auth0_sub = Null
            THEN GateGoto(p, "link", [gateLoc[p] EXCEPT !.byEmail = byEmail])
            ELSE GateDecide(p, byEmail)
     \/ StorageFails /\ GateAnswer(p, 500)
  /\ UNCHANGED <<inboxVars, listVars, cacheVars, diplomaVars, staffVars,
                 gateImpl, staff, gateStarted>>

\* update({ auth0_sub: sub }).eq('user_id', byEmail.user_id).select().single()
GateLink(p) ==
  /\ gatePc[p] = "link"
  /\ \/ LET u == gateLoc[p].byEmail.user_id
            linked == [staff[u] EXCEPT !.auth0_sub = gateLoc[p].token.sub]
        IN /\ staff' = [staff EXCEPT ![u] = linked]
           /\ GateDecide(p, linked)
     \/ StorageFails /\ GateAnswer(p, 500) /\ UNCHANGED staff
  /\ UNCHANGED <<inboxVars, listVars, cacheVars, diplomaVars, staffVars,
                 gateImpl, gateStarted>>

\* requireStaff: supabaseAuth.auth.getUser(token); 401 on an invalid token.
GateGetUser(p) ==
  /\ gatePc[p] = "get_user"
  /\ IF gateLoc[p].token.valid
       THEN GateGoto(p, "by_user_id", gateLoc[p])
       ELSE GateAnswer(p, 401)
  /\ UNCHANGED <<inboxVars, listVars, cacheVars, diplomaVars, staffVars,
                 gateImpl, staff, gateStarted>>

\* requireStaff: the staff row by user_id; 403 without an active row or with
\* a role outside allowedRoles.
GateByUserId(p) ==
  /\ gatePc[p] = "by_user_id"
  /\ \/ LET row == StaffByUserId(gateLoc[p].token.user_id) IN
          IF row.user_id # "" /\ row.active /\ row.role \notin allowedRoles
            THEN GateAnswer(p, 403)
            ELSE GateDecide(p, row)
     \/ StorageFails /\ GateAnswer(p, 500)
  /\ UNCHANGED <<inboxVars, listVars, cacheVars, diplomaVars, staffVars,
                 gateImpl, staff, gateStarted>>

\* The request is over; the task slot takes the next one.
GateRecycle(p) ==
  /\ gatePc[p] = "done"
  /\ gateStarted < MaxGateRequests
  /\ gatePc' = [gatePc EXCEPT ![p] = "idle"]
  /\ gateOut' = [gateOut EXCEPT ![p] = NoGateOut]
  /\ UNCHANGED <<inboxVars, listVars, cacheVars, diplomaVars, staffVars,
                 gateImpl, staff, gateStarted, gateLoc>>

\* One staff row, invited by e-mail: linked or not yet, active or not, with
\* an admin or another role.
InitGate ==
  /\ InboxIdle
  /\ ListIdle
  /\ CacheIdle
  /\ gateImpl \in GateImpls
  /\ \E sub \in {Null, "sub_a"}, active \in BOOLEAN, role \in {"admin", "viewer"} :
       staff = [u \in StaffIdsOfGate |->
                  [user_id |-> u, auth0_sub |-> sub, email |-> "ann@x.io",
                   role |-> role, active |-> active]]
  /\ gateStarted = 0
  /\ gatePc = [p \in Procs |-> "idle"]
  /\ gateLoc = [p \in Procs |-> NoGateLoc]
  /\ gateOut = [p \in Procs |-> NoGateOut]
  /\ DiplomaIdle
  /\ StaffIdle

NextGate ==
  \E p \in Procs :
    \/ GateStart(p)
    \/ GateBySub(p)
    \/ GateByEmail(p)
    \/ GateLink(p)
    \/ GateGetUser(p)
    \/ GateByUserId(p)
    \/ GateRecycle(p)

SpecGate == InitGate /\ [][NextGate]_vars

\* ------------------------- the status cache in time (routes/adminInbox.js)
\* loadInboxStatuses with its clock.  Date.now() is read from clock, which
\* advances in steps of TickMs.  A call that misses suspends at the query on
\* inbox_status; the store reads the table while the call is suspended, and
\* the continuation writes the cache with the time taken at the call's start.
\* cacheCalls and cacheLoads record, in order of cacheSeq, the calls made and
\* the loads completed.
CacheCall(p) ==
  /\ cachePc[p] = "idle"
  /\ Cardinality(cacheCalls) < MaxCacheCalls
  /\ LET now == clock
         hit == /\ cacheState.list # NoList
                /\ now - cacheState.at < cacheState.ttlMs
     IN  /\ cacheCalls' = cacheCalls \cup
              {[seq |-> cacheSeq, at |-> now, hit |-> hit,
                list |-> IF hit THEN cacheState.list ELSE NoList]}
         /\ cachePc' = [cachePc EXCEPT ![p] = IF hit THEN "idle" ELSE "query"]
         /\ cacheLoc' = [cacheLoc EXCEPT ![p] =
              IF hit THEN NoCacheLoc ELSE [NoCacheLoc EXCEPT !.now = now]]
  /\ cacheSeq' = cacheSeq + 1
  /\ UNCHANGED <<inboxVars, listVars, gateVars, diplomaVars, staffVars,
                 clock, inbox_status, cacheState,
                 cacheLoads>>

\* The store answers the select on inbox_status: the rows, or an error.
CacheQuery(p) ==
  /\ cachePc[p] = "query"
  /\ \E error \in BOOLEAN :
       cacheLoc' = [cacheLoc EXCEPT ![p].error = error,
                                    ![p].data = IF error THEN NoList
                                                ELSE <<inbox_status>>]
  /\ cachePc' = [cachePc EXCEPT ![p] = "resume"]
  /\ UNCHANGED <<inboxVars, listVars, gateVars, diplomaVars, staffVars,
                 clock, inbox_status, cacheState,
                 cacheSeq, cacheCalls, cacheLoads>>

\* The continuation after the await: throw on error, else replace the cache.
CacheResume(p) ==
  /\ cachePc[p] = "resume"
  /\ IF cacheLoc[p].error
       THEN UNCHANGED <<cacheState, cacheLoads, cacheSeq>>
       ELSE /\ cacheState' = [cacheState EXCEPT !.at = cacheLoc[p].now,
                                                !.list = cacheLoc[p].data]
            /\ cacheLoads' = cacheLoads \cup
                 {[seq |-> cacheSeq, at |-> cacheLoc[p].now,
                   list |-> cacheLoc[p].data]}
            /\ cacheSeq' = cacheSeq + 1
  /\ cachePc' = [cachePc EXCEPT ![p] = "idle"]
  /\ cacheLoc' = [cacheLoc EXCEPT ![p] = NoCacheLoc]
  /\ UNCHANGED <<inboxVars, listVars, gateVars, diplomaVars, staffVars,
                 clock, inbox_status, cacheCalls>>

\* Time passes.
CacheTick ==
  /\ clock < MaxTicks * TickMs
  /\ clock' = clock + TickMs
  /\ UNCHANGED <<inboxVars, listVars, gateVars, diplomaVars, staffVars,
                 inbox_status, cacheState,
                 cachePc, cacheLoc, cacheSeq, cacheCalls, cacheLoads>>

\* The lookup table is edited in the database.
StatusTableEdited ==
  /\ \E l \in StatusLists \ {inbox_status} : inbox_status' = l
  /\ UNCHANGED <<inboxVars, listVars, gateVars, diplomaVars, staffVars,
                 clock, cacheState, cachePc,
                 cacheLoc, cacheSeq, cacheCalls, cacheLoads>>

InitCache ==
  /\ InboxIdle
  /\ ListIdle
  /\ GateIdle
  /\ clock = 0
  /\ inbox_status \in StatusLists
  /\ cacheState = [at |-> 0, ttlMs |-> ttlMs, list |-> NoList]
  /\ cachePc = [p \in Procs |-> "idle"]
  /\ cacheLoc = [p \in Procs |-> NoCacheLoc]
  /\ cacheSeq = 0
  /\ cacheCalls = {}
  /\ cacheLoads = {}
  /\ DiplomaIdle
  /\ StaffIdle

NextCache ==
  \/ \E p \in Procs : CacheCall(p)
  \/ \E p \in Procs : CacheQuery(p)
  \/ \E p \in Procs : CacheResume(p)
  \/ CacheTick
  \/ StatusTableEdited

SpecCache == InitCache /\ [][NextCache]_vars

\* ------------------------------------- diploma students (src/unnamed/part_007)
\* POST /api/diploma/admin/students and POST /api/diploma/me/link-auth0 over
\* the table diploma_students.  Request strings as clients send them, and
\* what trim().toLowerCase() makes of them.
EmailInputs == {Absent, "", "kim@x.io", " Kim@X.io ", "lee@x.io"}

cleanEmail(v) ==
  CASE v = " Kim@X.io " -> "kim@x.io"
    [] v \in {Absent, Null} -> ""
    [] OTHER -> v

cleanStringOrNull(v) == IF v \in {Absent, Null, "", " "} THEN Null ELSE v

CohortInputs == {Absent, "2026", "26"}
FourDigitYears == {"2026"}
ALLOWED_DIPLOMA_TIERS == {"Targeted", "Platinum", "Diamond", "Ivy"}
TierInputs == {Absent, "Ivy", "Gold"}
SendInviteInputs == {Absent, "true", "false"}

\* .ilike('email', email) and .eq('auth0_sub', sub) on diploma_students.
StudentsByEmail(email) == {s \in diploma_students : s.email = email}
StudentsBySub(sub) == {s \in diploma_students : s.auth0_sub = sub}
StudentById(id) == CHOOSE s \in diploma_students : s.id = id

DGoto(p, label, l) ==
  /\ dPc' = [dPc EXCEPT ![p] = label]
  /\ dLoc' = [dLoc EXCEPT ![p] = l]
  /\ UNCHANGED dOut

\* sendError / res.json of a handler other than a completed creation.
DAnswer(p, status, code) ==
  /\ dPc' = [dPc EXCEPT ![p] = "done"]
  /\ dLoc' = [dLoc EXCEPT ![p] = NoDLoc]
  /\ dOut' = [dOut EXCEPT ![p] = [NoDOut EXCEPT !.status = status, !.code = code,
                                                 !.op = dLoc[p].op]]

\* res.status(201).json({ ...data, invite })
DCreated(p, invite) ==
  /\ dPc' = [dPc EXCEPT ![p] = "done"]
  /\ dLoc' = [dLoc EXCEPT ![p] = NoDLoc]
  /\ dOut' = [dOut EXCEPT ![p] = [status |-> 201, code |-> "CREATED", op |-> "create",
                                  student |-> dLoc[p].student, invite |-> invite]]

\* The creation handler up to its first await: the body is validated.
CreateStart(p) ==
  /\ dPc[p] = "idle"
  /\ dStarted < MaxDiplomaRequests
  /\ dStarted' = dStarted + 1
  /\ \E email \in EmailInputs, cohort \in CohortInputs, tier \in TierInputs,
        send_invite \in SendInviteInputs, auth0_sub \in {Absent, "sub_a"} :
       LET l == [NoDLoc EXCEPT !.op = "create", !.email = cleanEmail(email),
                               !.send_invite = send_invite,
                               !.auth0_sub = cleanStringOrNull(auth0_sub)]
       IN  IF \/ cleanEmail(email) = ""
              \/ cohort # Absent /\ cohort \notin FourDigitYears
              \/ cleanStringOrNull(tier) # Null /\ tier \notin ALLOWED_DIPLOMA_TIERS
             THEN /\ dPc' = [dPc EXCEPT ![p] = "done"]
                  /\ dOut' = [dOut EXCEPT ![p] = [NoDOut EXCEPT !.status = 400,
                                                                 !.code = "BAD_REQUEST",
                                                                 !.op = "create"]]
                  /\ UNCHANGED dLoc
             ELSE DGoto(p, "c_existing", l)
  /\ UNCHANGED <<inboxVars, listVars, gateVars, cacheVars, staffVars,
                 resendConfigured,
                 diploma_students, welcomeSent>>

\* select id,email where email ilike cleanEmail, maybeSingle.
CreateCheckExisting(p) ==
  /\ dPc[p] = "c_existing"
  /\ \/ DAnswer(p, 500, "SUPABASE_ERROR")
     \/ /\ Cardinality(StudentsByEmail(dLoc[p].email)) = 1
        /\ DAnswer(p, 409, "ALREADY_EXISTS")
     \/ /\ StudentsByEmail(dLoc[p].email) = {}
        /\ DGoto(p, "c_insert", dLoc[p])
  /\ UNCHANGED <<inboxVars, listVars, gateVars, cacheVars, staffVars,
                 resendConfigured,
                 diploma_students, welcomeSent, dStarted>>

\* insert(insertPayload).select('*').single(), then the invite decision up to
\* the await on the mail provider.
CreateInsert(p) ==
  /\ dPc[p] = "c_insert"
  /\ \/ /\ DAnswer(p, 500, "SUPABASE_ERROR")
        /\ UNCHANGED diploma_students
     \/ LET id == Cardinality(diploma_students) + 1
            shouldSendInvite == dLoc[p].send_invite \in {Absent, "true"}
            l == [dLoc[p] EXCEPT !.student = id]
        IN  /\ diploma_students' = diploma_students \cup
                 {[id |-> id, email |-> dLoc[p].email, auth0_sub |-> dLoc[p].auth0_sub,
                   invited |-> FALSE]}
            /\ IF ~shouldSendInvite
                 THEN /\ dPc' = [dPc EXCEPT ![p] = "done"]
                      /\ dLoc' = [dLoc EXCEPT ![p] = NoDLoc]
                      /\ dOut' = [dOut EXCEPT ![p] =
                           [status |-> 201, code |-> "CREATED", op |-> "create",
                            student |-> id,
                            invite |-> [NoInvite EXCEPT !.skipped = TRUE]]]
                 ELSE IF ~resendConfigured
                 THEN /\ dPc' = [dPc EXCEPT ![p] = "done"]
                      /\ dLoc' = [dLoc EXCEPT ![p] = NoDLoc]
                      /\ dOut' = [dOut EXCEPT ![p] =
                           [status |-> 201, code |-> "CREATED", op |-> "create",
                            student |-> id,
                            invite |-> [NoInvite EXCEPT !.requested = TRUE,
                                                        !.skipped = TRUE]]]
                 ELSE DGoto(p, "c_send", l)
  /\ UNCHANGED <<inboxVars, listVars, gateVars, cacheVars, staffVars,
                 resendConfigured, welcomeSent,
                 dStarted>>

\* Mutant of CreateSend: a failed send reaches the handler's outer catch.
CreateSendFailureIsFatal(p) ==
  /\ dPc[p] = "c_send"
  /\ \/ /\ welcomeSent' = welcomeSent + 1
        /\ DGoto(p, "c_record", dLoc[p])
     \/ /\ DAnswer(p, 500, "SERVER_ERROR")
        /\ UNCHANGED welcomeSent
  /\ UNCHANGED <<inboxVars, listVars, gateVars, cacheVars, staffVars,
                 resendConfigured,
                 diploma_students, dStarted>>

\* await sendWelcomeToDiplomaPortal: the message is accepted, or the call
\* throws and the inner catch reports it in invite.
CreateSend(p) ==
  /\ dPc[p] = "c_send"
  /\ \/ /\ welcomeSent' = welcomeSent + 1
        /\ DGoto(p, "c_record", dLoc[p])
     \/ /\ DCreated(p, [NoInvite EXCEPT !.requested = TRUE, !.error = TRUE])
        /\ UNCHANGED welcomeSent
  /\ UNCHANGED <<inboxVars, listVars, gateVars, cacheVars, staffVars,
                 resendConfigured,
                 diploma_students, dStarted>>

\* await recordInviteStatus: the update of invited_at; its error is thrown,
\* caught at once and logged.
CreateRecordInvite(p) ==
  /\ dPc[p] = "c_record"
  /\ \/ diploma_students' =
          {IF s.id = dLoc[p].student THEN [s EXCEPT !.invited = TRUE] ELSE s :
             s \in diploma_students}
     \/ UNCHANGED diploma_students
  /\ DCreated(p, [NoInvite EXCEPT !.requested = TRUE, !.ok = TRUE])
  /\ UNCHANGED <<inboxVars, listVars, gateVars, cacheVars, staffVars,
                 resendConfigured, welcomeSent,
                 dStarted>>

\* link-auth0 up to its first await: sub and email are taken from the token
\* and the body.
LinkStart(p) ==
  /\ dPc[p] = "idle"
  /\ dStarted < MaxDiplomaRequests
  /\ dStarted' = dStarted + 1
  /\ \E sub \in {Absent, "sub_a", "sub_b"}, tokenEmail \in {Absent, "kim@x.io"},
        bodyEmail \in {Absent, " Kim@X.io ", "lee@x.io"} :
       LET email == cleanEmail(OrElse(tokenEmail, OrElse(cleanEmail(bodyEmail), "")))
           l == [NoDLoc EXCEPT !.op = "link", !.sub = sub, !.email = email]
       IN  IF Falsy(sub) \/ email = ""
             THEN /\ dPc' = [dPc EXCEPT ![p] = "done"]
                  /\ dOut' = [dOut EXCEPT ![p] =
                       [NoDOut EXCEPT !.status = IF Falsy(sub) THEN 401 ELSE 400,
                                      !.code = IF Falsy(sub) THEN "MISSING_SUB"
                                               ELSE "MISSING_EMAIL",
                                      !.op = "link"]]
                  /\ UNCHANGED dLoc
             ELSE DGoto(p, "l_bysub", l)
  /\ UNCHANGED <<inboxVars, listVars, gateVars, cacheVars, staffVars,
                 resendConfigured,
                 diploma_students, welcomeSent>>

\* select where auth0_sub = sub, maybeSingle (more than one row is an error).
LinkBySub(p) ==
  /\ dPc[p] = "l_bysub"
  /\ \/ DAnswer(p, 500, "SUPABASE_ERROR")
     \/ /\ Cardinality(StudentsBySub(dLoc[p].sub)) = 1
        /\ DAnswer(p, 200, "ALREADY")
     \/ /\ StudentsBySub(dLoc[p].sub) = {}
        /\ DGoto(p, "l_find", dLoc[p])
  /\ UNCHANGED <<inboxVars, listVars, gateVars, cacheVars, staffVars,
                 resendConfigured,
                 diploma_students, welcomeSent, dStarted>>

\* select where email ilike email, maybeSingle, and the checks on the row.
LinkFind(p) ==
  /\ dPc[p] = "l_find"
  /\ \/ DAnswer(p, 500, "SUPABASE_ERROR")
     \/ /\ StudentsByEmail(dLoc[p].email) = {}
        /\ DAnswer(p, 404, "NOT_FOUND")
     \/ /\ Cardinality(StudentsByEmail(dLoc[p].email)) = 1
        /\ LET student == CHOOSE s \in StudentsByEmail(dLoc[p].email) : TRUE IN
             IF ~Falsy(student.auth0_sub)
               THEN IF student.auth0_sub = dLoc[p].sub
                      THEN DAnswer(p, 200, "ALREADY")
                      ELSE DAnswer(p, 409, "ALREADY_LINKED")
               ELSE DGoto(p, "l_update", [dLoc[p] EXCEPT !.student = student.id])
  /\ UNCHANGED <<inboxVars, listVars, gateVars, cacheVars, staffVars,
                 resendConfigured,
                 diploma_students, welcomeSent, dStarted>>

\* update({ auth0_sub: sub }).eq('id', student.id).select(...).single()
LinkUpdate(p) ==
  /\ dPc[p] = "l_update"
  /\ \/ /\ DAnswer(p, 500, "SUPABASE_ERROR")
        /\ UNCHANGED diploma_students
     \/ /\ diploma_students' =
             {IF s.id = dLoc[p].student THEN [s EXCEPT !.auth0_sub = dLoc[p].sub] ELSE s :
                s \in diploma_students}
        /\ DAnswer(p, 200, "LINKED")
  /\ UNCHANGED <<inboxVars, listVars, gateVars, cacheVars, staffVars,
                 resendConfigured, welcomeSent,
                 dStarted>>

\* The response is out; the task slot takes the next request.
DRecycle(p) ==
  /\ dPc[p] = "done"
  /\ dStarted < MaxDiplomaRequests
  /\ dPc' = [dPc EXCEPT ![p] = "idle"]
  /\ dOut' = [dOut EXCEPT ![p] = NoDOut]
  /\ UNCHANGED <<inboxVars, listVars, gateVars, cacheVars, staffVars,
                 resendConfigured,
                 diploma_students, welcomeSent, dStarted, dLoc>>

InitDiploma ==
  /\ InboxIdle
  /\ ListIdle
  /\ GateIdle
  /\ CacheIdle
  /\ resendConfigured \in BOOLEAN
  /\ diploma_students \in
       {{}, {[id |-> 1, email |-> "kim@x.io", auth0_sub |-> Null, invited |-> FALSE]}}
  /\ welcomeSent = 0
  /\ dStarted = 0
  /\ dPc = [p \in Procs |-> "idle"]
  /\ dLoc = [p \in Procs |-> NoDLoc]
  /\ dOut = [p \in Procs |-> NoDOut]
  /\ StaffIdle

NextDiploma ==
  \E p \in Procs :
    \/ CreateStart(p)
    \/ CreateCheckExisting(p)
    \/ CreateInsert(p)
    \/ CreateSend(p)
    \/ CreateRecordInvite(p)
    \/ LinkStart(p)
    \/ LinkBySub(p)
    \/ LinkFind(p)
    \/ LinkUpdate(p)
    \/ DRecycle(p)

SpecDiploma == InitDiploma /\ [][NextDiploma]_vars

\* ------------------------------ staff administration (websiteAdminStaff.js)
\* POST /staff/invite and PATCH /staff/:user_id over the table staff, in the
\* three versions of routes/websiteAdminStaff.js found in the sources:
\*   "part_005"           invite re-activates a duplicate with the body's
\*                        active and provisions the Auth0 user; PATCH counts
\*                        the active rows before a deactivation
\*   "part_006"           invite re-activates a duplicate with active = true;
\*                        PATCH counts the active rows before a deactivation
\*   "websiteAdminStaff"  src/routes/websiteAdminStaff.js: plain insert, and
\*                        PATCH without a count
StaffImpls == {"part_005", "part_006", "websiteAdminStaff"}
StaffUserIds == {"u1", "u2"}
PatchUserIds == StaffUserIds \cup {"u9"}
ActiveInputs == {Absent, "true", "false"}

\* The Auth0 user getOrCreateAuth0UserByEmail returns for an e-mail.
Auth0UserIdOf(email) == IF email = "ann@x.io" THEN "sub_a" ELSE "sub_b"

StaffWithEmail(email) == {u \in DOMAIN staff : staff[u].email = email}
ActiveStaff == {u \in DOMAIN staff : staff[u].active}

\* update(patch) of the rows in us; a column the patch does not name stays.
StaffUpdate(us, patch) ==
  [u \in DOMAIN staff |->
     IF u \in us
       THEN [staff[u] EXCEPT
               !.active = IF patch.active = Absent THEN @ ELSE patch.active = "true",
               !.email = IF patch.email = Absent THEN @ ELSE patch.email,
               !.auth0_sub = IF patch.auth0_sub = Absent THEN @ ELSE patch.auth0_sub]
       ELSE staff[u]]

SGoto(p, label, l) ==
  /\ sPc' = [sPc EXCEPT ![p] = label]
  /\ sLoc' = [sLoc EXCEPT ![p] = l]
  /\ UNCHANGED sOut

SAnswer(p, status, code) ==
  /\ sPc' = [sPc EXCEPT ![p] = "done"]
  /\ sLoc' = [sLoc EXCEPT ![p] = NoSLoc]
  /\ sOut' = [sOut EXCEPT ![p] = [status |-> status, code |-> code]]

\* The invite handler up to its first await.
InviteStart(p) ==
  /\ sPc[p] = "idle"
  /\ sStarted < MaxStaffRequests
  /\ sStarted' = sStarted + 1
  /\ \E email \in TokenEmails, active \in ActiveInputs :
       IF normalizeEmail(email) = Null
         THEN SAnswer(p, 400, "BAD_REQUEST")
         ELSE SGoto(p, "i_insert",
                    [NoSLoc EXCEPT !.op = "invite", !.email = normalizeEmail(email),
                                   !.patch.active = IF active = "false" THEN "false"
                                                    ELSE "true"])
  /\ UNCHANGED <<inboxVars, listVars, gateVars, cacheVars, diplomaVars, staffImpl,
                 inviteSent>>

\* insert({email, role: 'admin', active, auth0_sub: null}); the unique index
\* on email refuses a second row for the address.
InviteInsert(p) ==
  /\ sPc[p] = "i_insert"
  /\ IF StaffWithEmail(sLoc[p].email) # {}
       THEN /\ IF staffImpl = "websiteAdminStaff"
                 THEN SAnswer(p, 400, "SUPABASE_ERROR")
                 ELSE SGoto(p, "i_reactivate", sLoc[p])
            /\ UNCHANGED staff
       ELSE \/ /\ SAnswer(p, 400, "SUPABASE_ERROR")
               /\ UNCHANGED staff
            \/ /\ StaffUserIds \ DOMAIN staff # {}
               /\ LET id == CHOOSE u \in StaffUserIds \ DOMAIN staff : TRUE
                  IN  /\ staff' = [u \in DOMAIN staff \cup {id} |->
                                     IF u = id
                                       THEN [user_id |-> id, auth0_sub |-> Null,
                                             email |-> sLoc[p].email, role |-> "admin",
                                             active |-> sLoc[p].patch.active = "true"]
                                       ELSE staff[u]]
                      /\ SGoto(p, IF staffImpl = "part_005" THEN "i_auth0" ELSE "i_send",
                               [sLoc[p] EXCEPT !.user_id = id])
  /\ UNCHANGED <<inboxVars, listVars, cacheVars, diplomaVars, gateTasks, staffImpl, sStarted,
                 inviteSent>>

\* The duplicate is updated instead: update({active, email}).eq('email',
\* email).single(), with the body's active in part_005 and true in part_006.
InviteReactivate(p) ==
  /\ sPc[p] = "i_reactivate"
  /\ \/ /\ SAnswer(p, 500, "SUPABASE_ERROR")
        /\ UNCHANGED staff
     \/ /\ StaffWithEmail(sLoc[p].email) # {}
        /\ staff' = StaffUpdate(StaffWithEmail(sLoc[p].email),
                                [NoSPatch EXCEPT
                                   !.active = IF staffImpl = "part_005"
                                                THEN sLoc[p].patch.active ELSE "true",
                                   !.email = sLoc[p].email])
        /\ SGoto(p, IF staffImpl = "part_005" THEN "i_auth0" ELSE "i_send",
                 [sLoc[p] EXCEPT !.user_id =
                    CHOOSE u \in StaffWithEmail(sLoc[p].email) : TRUE])
  /\ UNCHANGED <<inboxVars, listVars, cacheVars, diplomaVars, gateTasks, staffImpl, sStarted,
                 inviteSent>>

\* getOrCreateAuth0UserByEmail and createPasswordChangeTicket: a failure is
\* answered 500 AUTH0_PROVISION_FAILED and the staff row is kept.
InviteProvision(p) ==
  /\ sPc[p] = "i_auth0"
  /\ \/ SAnswer(p, 500, "AUTH0_PROVISION_FAILED")
     \/ SGoto(p, "i_persist", sLoc[p])
  /\ UNCHANGED <<inboxVars, listVars, gateVars, cacheVars, diplomaVars, staffImpl, sStarted,
                 inviteSent>>

\* update({ auth0_sub }).eq('user_id', staffRow.user_id); an error is ignored.
InvitePersistSub(p) ==
  /\ sPc[p] = "i_persist"
  /\ \/ staff' = StaffUpdate({sLoc[p].user_id} \cap DOMAIN staff,
                             [NoSPatch EXCEPT !.auth0_sub = Auth0UserIdOf(sLoc[p].email)])
     \/ UNCHANGED staff
  /\ SGoto(p, "i_send", sLoc[p])
  /\ UNCHANGED <<inboxVars, listVars, cacheVars, diplomaVars, gateTasks, staffImpl, sStarted,
                 inviteSent>>

\* sendAdminInviteEmail: 201, or the outer catch when it throws.
InviteSend(p) ==
  /\ sPc[p] = "i_send"
  /\ \/ /\ inviteSent' = inviteSent + 1
        /\ SAnswer(p, 201, "OK")
     \/ /\ SAnswer(p, 500, "SERVER_ERROR")
        /\ UNCHANGED inviteSent
  /\ UNCHANGED <<inboxVars, listVars, gateVars, cacheVars, diplomaVars, staffImpl, sStarted>>

\* PATCH up to its first await: the patch object is built from the body.
StaffPatchStart(p) ==
  /\ sPc[p] = "idle"
  /\ sStarted < MaxStaffRequests
  /\ sStarted' = sStarted + 1
  /\ \E user_id \in PatchUserIds, active \in ActiveInputs,
        email \in {Absent, "eve@x.io"} :
       LET patch == [NoSPatch EXCEPT !.active = active,
                                     !.email = IF email = Absent THEN Absent
                                               ELSE normalizeEmail(email)]
           l == [NoSLoc EXCEPT !.op = "patch", !.user_id = user_id, !.patch = patch]
       IN  IF patch = NoSPatch
             THEN SAnswer(p, 400, "BAD_REQUEST")
             ELSE SGoto(p, IF patch.active = "false" /\ staffImpl # "websiteAdminStaff"
                             THEN "sp_count" ELSE "sp_update", l)
  /\ UNCHANGED <<inboxVars, listVars, gateVars, cacheVars, diplomaVars, staffImpl,
                 inviteSent>>

\* Guard: select count where active = true; one or none refuses the patch.
StaffPatchCount(p) ==
  /\ sPc[p] = "sp_count"
  /\ \/ SAnswer(p, 500, "SUPABASE_ERROR")
     \/ IF Cardinality(ActiveStaff) <= 1
          THEN SAnswer(p, 400, "BAD_REQUEST")
          ELSE SGoto(p, "sp_update", sLoc[p])
  /\ UNCHANGED <<inboxVars, listVars, gateVars, cacheVars, diplomaVars, staffImpl, sStarted,
                 inviteSent>>

\* update(patch).eq('user_id', user_id).single(): no such row, or an e-mail
\* another row has, is an error.
StaffPatchUpdate(p) ==
  /\ sPc[p] = "sp_update"
  /\ \/ /\ SAnswer(p, 500, "SUPABASE_ERROR")
        /\ UNCHANGED staff
     \/ /\ sLoc[p].user_id \in DOMAIN staff
        /\ sLoc[p].patch.email # Absent =>
             StaffWithEmail(sLoc[p].patch.email) \subseteq {sLoc[p].user_id}
        /\ staff' = StaffUpdate({sLoc[p].user_id}, sLoc[p].patch)
        /\ SAnswer(p, 200, "OK")
  /\ UNCHANGED <<inboxVars, listVars, cacheVars, diplomaVars, gateTasks, staffImpl, sStarted,
                 inviteSent>>

\* The response is out; the task slot takes the next request.
SRecycle(p) ==
  /\ sPc[p] = "done"
  /\ sStarted < MaxStaffRequests
  /\ sPc' = [sPc EXCEPT ![p] = "idle"]
  /\ sOut' = [sOut EXCEPT ![p] = NoSOut]
  /\ UNCHANGED <<inboxVars, listVars, gateVars, cacheVars, diplomaVars, staffImpl, sStarted,
                 sLoc, inviteSent>>

\* The table holds at least one active admin.
InitStaff ==
  /\ InboxIdle
  /\ ListIdle
  /\ CacheIdle
  /\ DiplomaIdle
  /\ gateImpl = "requireWebsiteStaff"
  /\ gateStarted = 0
  /\ gatePc = [p \in Procs |-> "idle"]
  /\ gateLoc = [p \in Procs |-> NoGateLoc]
  /\ gateOut = [p \in Procs |-> NoGateOut]
  /\ staffImpl \in StaffImpls
  /\ \E us \in {{"u1"}, {"u1", "u2"}}, second \in BOOLEAN :
       staff = [u \in us |->
                  [user_id |-> u, auth0_sub |-> Null,
                   email |-> IF u = "u1" THEN "ann@x.io" ELSE "eve@x.io",
                   role |-> "admin", active |-> (u = "u1" \/ second)]]
  /\ sStarted = 0
  /\ inviteSent = 0
  /\ sPc = [p \in Procs |-> "idle"]
  /\ sLoc = [p \in Procs |-> NoSLoc]
  /\ sOut = [p \in Procs |-> NoSOut]

NextStaff ==
  \E p \in Procs :
    \/ InviteStart(p)
    \/ InviteInsert(p)
    \/ InviteReactivate(p)
    \/ InviteProvision(p)
    \/ InvitePersistSub(p)
    \/ InviteSend(p)
    \/ StaffPatchStart(p)
    \/ StaffPatchCount(p)
    \/ StaffPatchUpdate(p)
    \/ SRecycle(p)

SpecStaff == InitStaff /\ [][NextStaff]_vars

\* ------------------------------------------------------------ properties
ResolverLabels == {"g_select", "g_insert", "g_seed", "u_upsert", "u_anyevent", "u_seed"}

\* Task p takes a step; it sends its response in this step.
Steps(p) == pc'[p] # pc[p]
Responds(p) == pc[p] # "done" /\ pc'[p] = "done"

\* The stored status of every lead, and of every source row, is kept.
LeadStatusesKept == \A l \in leads : \E m \in leads' : m.id = l.id /\ m.status = l.status
SourceStatusesKept == \A k \in DOMAIN source : source'[k].status = source[k].status

\* C1: in every reachable state the leads table holds at most one row for
\* each (source_table, source_row_id) pair, with either resolver.
C1_OneLeadPerSourceRow == \A k \in LeadKeys : Cardinality(LeadsFor(k)) <= 1

\* Two requests have both upserted the same pair, and one row is stored.
C1_Witness ==
  /\ \A p \in Procs : pc[p] = "u_anyevent"
  /\ \E k \in SourceKeys :
       /\ \A p \in Procs : loc[p].key = k
       /\ Cardinality(LeadsFor(k)) = 1

\* C2: two concurrent first calls of getOrCreateLead for one pair both return,
\* with the same lead id: no call ends in a duplicate-key error, and the calls
\* for a pair never return two different ids.
C2_ConcurrentFirstCallsBothReturn ==
  /\ \A p \in Procs : resp[p].detail # "duplicate key"
  /\ \A k \in LeadKeys : Cardinality(returned[k]) <= 1

\* C3: a call of getOrCreateLead made after an earlier call for the same pair
\* has returned gives the same lead id, and adds no leads row and no
\* lead_events row.
C3_SecondCallAddsNothing ==
  /\ [](\A k \in LeadKeys : Cardinality(returned[k]) <= 1)
  /\ [][\A p \in Procs :
          (pc[p] \in ResolverLabels /\ Steps(p) /\ loc[p].seq)
            => (Cardinality(leads') = Cardinality(leads) /\ events' = events)]_vars

\* C4: a lead that exists when getOrCreateLead runs keeps its assigned_to,
\* source_page and status through every step of the call.
C4_FoundLeadUnmodified ==
  [][\A p \in Procs :
       (pc[p] \in ResolverLabels /\ Steps(p))
         => \A l \in LeadsFor(loc[p].key) :
              \E m \in leads' : /\ m.id = l.id
                                /\ m.assigned_to = l.assigned_to
                                /\ m.source_page = l.source_page
                                /\ m.status = l.status]_vars

\* C5: every lead that a getOrCreateLead call has returned has at least one
\* lead_events row.
C5_ReturnedLeadHasEvent ==
  \A k \in LeadKeys : \A id \in returned[k] : EventsOf(id) # {}

\* The calls of the lead mutator: updateLeadStatusAndAssign from the PATCH and
\* reply handlers of adminInbox, and the mirror section of the PATCH handler
\* of websiteAdminInbox. to_status and assigned_to are what the call is given.
CallsMutator(p) ==
  \/ impl = "adminInbox" /\ loc[p].op \in {"patch", "reply"}
  \/ impl = "websiteAdminInbox" /\ loc[p].op = "patch"
MutatorLabels == {"m_update", "m_evstatus", "m_evassign", "wp_leadupd", "wp_event"}
StatusDiffers(p) ==
  loc[p].body.lead_status \notin {Absent, loc[p].lead.status}
AssignmentDiffers(p) ==
  loc[p].body.assigned_to \notin {Absent, loc[p].lead.assigned_to}
\* The fields the call changes: those it writes with another value than the
\* held lead's.
WritesStatus(p) == loc[p].updates.status \notin {Absent, loc[p].lead.status}
WritesAssignment(p) == loc[p].updates.assigned_to \notin {Absent, loc[p].lead.assigned_to}
\* The events the request of p has written, as of the end of the step.
EventsBy(p) == {e \in events' : e.req = loc[p].rid}

\* C6: when a call of the lead mutator is accepted (the request answers 200),
\* the request has written exactly one status_change event, from the held
\* status to the new one, if the status changed and none otherwise, and
\* exactly one 'Assignment changed' event of kind other if the assignment
\* changed and none otherwise.
C6_EventsMatchChangedFields ==
  [][\A p \in Procs :
       (Responds(p) /\ resp'[p].status = 200 /\ CallsMutator(p)
          /\ pc[p] \in MutatorLabels)
         => LET st == {e \in EventsBy(p) : e.event_kind = "status_change"}
                as == {e \in EventsBy(p) :
                         e.event_kind = "other" /\ e.title = "Assignment changed"}
            IN /\ Cardinality(st) = IF WritesStatus(p) THEN 1 ELSE 0
               /\ \A e \in st : /\ e.from_status = loc[p].lead.status
                                /\ e.to_status = loc[p].updates.status
               /\ Cardinality(as) = IF WritesAssignment(p) THEN 1 ELSE 0]_vars

\* C7: a call of the lead mutator whose to_status is absent or the held
\* lead's status, and whose assigned_to is absent or the held lead's
\* assignment, never gets to the update of the leads row nor to an event
\* insert.
C7_NoOpCallWritesNothing ==
  \A p \in Procs :
    (CallsMutator(p) /\ pc[p] \in MutatorLabels)
      => StatusDiffers(p) \/ AssignmentDiffers(p)

\* A status the request asks for is no code of the registry.
AsksInvalidStatus(b) ==
  \/ b.lead_status # Absent /\ b.lead_status \notin RegistryCodes
  \/ b.source_status # Absent /\ b.source_status \notin RegistryCodes

\* C8: a PATCH or reply that asks for a status that is no registry code is
\* answered 400 BAD_REQUEST/INVALID_STATUS (or 5xx when the registry could not
\* be read), and no step of it changes a lead's or a source row's status.
C8_InvalidStatusRejected ==
  [][\A p \in Procs :
       (Steps(p) /\ AsksInvalidStatus(loc[p].body)
          /\ (loc[p].op = "patch" \/ (loc[p].op = "reply" /\ impl = "adminInbox")))
         => /\ LeadStatusesKept
            /\ SourceStatusesKept
            /\ Responds(p) =>
                 \/ /\ resp'[p].status = 400
                    /\ resp'[p].code \in {"BAD_REQUEST", "INVALID_STATUS"}
                 \/ resp'[p].status = 500 /\ resp'[p].detail = "storage"]_vars

\* C9: a call of updateLeadStatusAndAssign whose to_status its own check
\* (safeLeadStatus) does not accept never ends in success: the request that
\* made the call is not answered 200.
C9_MutatorRejectsInvalidStatus ==
  [][\A p \in Procs :
       (impl = "adminInbox" /\ Responds(p) /\ loc[p].op \in {"patch", "reply"}
          /\ pc[p] \in {"p_srcupd", "r_srcupd", "m_update", "m_evstatus", "m_evassign"}
          /\ ~Falsy(loc[p].body.lead_status)
          /\ safeLeadStatus(loc[p].body.lead_status) = Null)
         => resp'[p].status # 200]_vars

\* C10: a PATCH of adminInbox, running alone, whose lead_status is a registry
\* code other than the held lead's status is answered 200 and leaves the
\* lead's stored status equal to that code (unless a storage call failed).
C10_AnyValidTransitionAccepted ==
  [][\A p \in Procs :
       (impl = "adminInbox" /\ Responds(p) /\ loc[p].op = "patch" /\ loc[p].alone
          /\ loc[p].body.lead_status \in RegistryCodes
          /\ ~AsksInvalidStatus(loc[p].body)
          /\ loc[p].body.lead_status # loc[p].lead.status)
         => \/ resp'[p].detail = "storage"
            \/ /\ resp'[p].status = 200
               /\ \E m \in leads' : /\ m.id = loc[p].lead.id
                                    /\ m.status = loc[p].body.lead_status]_vars

\* C11: a request whose source_table is outside the allow-list never gets past
\* the top of its handler: no handler is ever suspended at an await (a read or
\* write of storage, or the mail provider) on behalf of such a table, and the
\* step that answers such a request answers 400 and leaves leads,
\* lead_events, the source tables, the status cache and the mail count as
\* they were.
C11_DisallowedTableRejected ==
  /\ [](\A p \in Procs : InFlight(p) => loc[p].key[1] \in ALLOWED_SOURCES)
  /\ [][\A p \in Procs :
          (Steps(p) /\ resp'[p].detail = "Unsupported source_table")
            => /\ pc[p] = "idle"
               /\ resp'[p].status = 400
               /\ UNCHANGED <<leads, events, source, statusCache, emails, returned>>]_vars

\* A request for a table outside the allow-list was answered after a lead
\* had been created.
C11_Witness ==
  /\ leads # {}
  /\ \E p \in Procs : /\ resp[p].status = 400
                      /\ resp[p].detail = "Unsupported source_table"

\* The stored row of the lead that task p holds, as of the end of the step.
StoredAfter(p) == {m \in leads' : m.id = loc[p].lead.id}

MutatorEventsOf(p) ==
  {e \in events : /\ e.req = loc[p].rid
                  /\ \/ e.event_kind = "status_change"
                     \/ e.event_kind = "other" /\ e.title = "Assignment changed"}

\* C13: in updateLeadStatusAndAssign the update of the leads row comes before
\* the events: a call that is still to update the row has written no
\* status_change or assignment event; the steps that insert the events leave
\* the leads table as it is (nothing is rolled back), and an insert that
\* fails ends the request with an error instead of being tried again.
C13_UpdateBeforeEventNoRollback ==
  /\ [](\A p \in Procs : pc[p] = "m_update" => MutatorEventsOf(p) = {})
  /\ [][\A p \in Procs :
          (Steps(p) /\ pc[p] \in {"m_evstatus", "m_evassign"})
            => /\ leads' = leads
               /\ events' = events
                    => /\ pc'[p] = "done"
                       /\ resp'[p].status = 500]_vars

\* A request ended in a storage error, and a lead holds a status that no
\* status_change event records: the update stayed, the event is missing.
C13_Witness ==
  /\ impl = "adminInbox"
  /\ \E p \in Procs : resp[p].status = 500 /\ resp[p].detail = "storage"
  /\ \E l \in leads :
       /\ l.status # "new"
       /\ \A e \in EventsOf(l.id) : e.event_kind # "status_change"

\* C14: lead_events is an insertion log and leads are never deleted: every
\* step keeps every lead_events row as it is (the events of a lead only grow)
\* and keeps a leads row for every lead id.
C14_EventsAppendOnlyLeadsKept ==
  [][/\ events \subseteq events'
     /\ \A l \in leads : \E m \in leads' : m.id = l.id]_vars

\* A lead was updated after its creation and has three events or more.
C14_Witness ==
  \E l \in leads : /\ l.status # "new"
                   /\ Cardinality(EventsOf(l.id)) >= 3

\* C15: in every handler getOrCreateLead has returned before any other write
\* or outbound effect of the request: a step of a handler, outside the
\* resolver, that sends an e-mail or changes a source row, lead_events or
\* leads is taken by a request that already holds its lead.
C15_ResolverBeforeSideEffects ==
  [][\A p \in Procs :
       (Steps(p) /\ pc[p] \notin ResolverLabels
          /\ (emails' # emails \/ source' # source \/ events' # events \/ leads' # leads))
         => loc[p].lead.id # 0]_vars

\* C16: a detail GET that runs alone for a pair no lead was resolved for
\* before: when the source row exists the request is answered 200, and there
\* is then exactly one lead for the pair, of the kind the mapper gives for
\* the table, with exactly one 'Lead created' event; when the source row is
\* absent the request is answered 404.
C16_DetailCreatesLeadAndSeed ==
  [][\A p \in Procs :
       (Responds(p) /\ loc[p].op = "detail" /\ loc[p].alone)
         => IF loc[p].key \in DOMAIN source
              THEN (pc[p] = "d_events" /\ ~loc[p].seq)
                     => /\ resp'[p].status = 200
                        /\ Cardinality(LeadsFor(loc[p].key)) = 1
                        /\ \A l \in LeadsFor(loc[p].key) :
                             /\ l.kind = leadKindForSource(loc[p].key[1])
                             /\ Cardinality({e \in EventsOf(l.id) :
                                               e.title = "Lead created"}) = 1
              ELSE resp'[p].status = 404]_vars

\* C17: a reply that runs alone, asks for a lead status that is a registry
\* code other than the held lead's status, and is answered 200 has written
\* exactly one email event, leaves the lead's stored status equal to the
\* status asked for, and has written exactly one status_change event, from
\* the held status to the status asked for.
C17_ReplySetsStatusAndLogs ==
  [][\A p \in Procs :
       (Responds(p) /\ resp'[p].status = 200 /\ loc[p].op = "reply" /\ loc[p].alone
          /\ loc[p].body.lead_status \in RegistryCodes
          /\ loc[p].body.lead_status # loc[p].lead.status)
         => /\ Cardinality({e \in EventsBy(p) : e.event_kind = "email"}) = 1
            /\ \A m \in StoredAfter(p) : m.status = loc[p].body.lead_status
            /\ \E e \in EventsBy(p) :
                 /\ e.event_kind = "status_change"
                 /\ e.from_status = loc[p].lead.status
                 /\ e.to_status = loc[p].body.lead_status
            /\ Cardinality({e \in EventsBy(p) : e.event_kind = "status_change"}) = 1]_vars

\* The page size the list is to use for a requested pageSize: the request's
\* own from 1 to 100, 25 when absent, 100 when above 100.
WantedPageSize(s) == IF s = <<>> THEN 25 ELSE IF s[1] > 100 THEN 100 ELSE s[1]

\* C18: the response to a list request for page p >= 1 and pageSize s holds
\* exactly the rows at positions (p-1)*s+1 .. min(p*s, N) of the newest-first
\* order of the N filtered rows, with total = N, page = p and pageSize = s,
\* where an absent pageSize counts as 25 and one above 100 as 100.
C18_PageIsTheRequestedSlice ==
  (listResponse.status = 200 /\ listQuery.page # <<>>)
    => LET p == listQuery.page[1]
           s == WantedPageSize(listQuery.pageSize)
       IN /\ listResponse.rows =
               {i \in 1 .. listRows : (p - 1) * s + 1 <= i /\ i <= Min(p * s, listRows)}
          /\ listResponse.total = listRows
          /\ listResponse.page = p
          /\ listResponse.pageSize = s

\* The staff row attached to an admitted request resolves for its token: by
\* the token's sub or its normalized e-mail (requireWebsiteStaff), by the
\* user id (requireStaff).
ResolvesFor(row, token) ==
  IF gateImpl = "requireWebsiteStaff"
    THEN \/ row.auth0_sub = token.sub
         \/ normalizeEmail(token.email) # Null /\ row.email = normalizeEmail(token.email)
    ELSE row.user_id = token.user_id

\* C19: the gate admits a request only with an active staff row that
\* resolves for the token, and answers the others 403 (401 without a usable
\* token, 500 when a staff query failed); and a step writes auth0_sub on a
\* staff row only if the row's auth0_sub was empty, so that a linked
\* auth0_sub is never overwritten, also when first logins interleave.
C19_GateAdmitsActiveStaffLinksOnce ==
  /\ [](\A p \in Procs :
          /\ gateOut[p].status \in {0, 200, 401, 403, 500}
          /\ gateOut[p].status = 200
               => /\ gateOut[p].staff.active
                  /\ gateOut[p].staff.user_id \in DOMAIN staff
                  /\ ResolvesFor(gateOut[p].staff, gateOut[p].token))
  /\ [][\A u \in DOMAIN staff :
          staff'[u].auth0_sub # staff[u].auth0_sub => staff[u].auth0_sub = Null]_vars

\* The loads completed before call c, and the last of them.
LoadsBefore(c) == {L \in cacheLoads : L.seq < c.seq}
LastLoadBefore(c) ==
  CHOOSE L \in LoadsBefore(c) : \A M \in LoadsBefore(c) : M.seq <= L.seq

\* C20: once a successful load of loadInboxStatuses has completed, every call
\* made less than 30 seconds after the time of that load is served from the
\* cache: it issues no query on inbox_status and returns the list the cache
\* holds, that of the last load completed; a call queries the store only when
\* no completed load is that recent.
C20_CachedWithinInterval ==
  \A c \in cacheCalls :
    \A L \in LoadsBefore(c) :
      c.at - L.at < ttlMs =>
        /\ c.hit
        /\ c.list = LastLoadBefore(c).list

\* The status a request suspended in assertValidStatusOrThrow has asked about.
ValidatedValue(p) ==
  IF pc[p] = "v_source" THEN loc[p].body.source_status ELSE loc[p].body.lead_status

\* C21: a PATCH or reply whose status validation ends the request although
\* the status is a code of inbox_status (the read of the table failed) is
\* answered with a 5xx error and never with INVALID_STATUS; INVALID_STATUS is
\* only ever given for a status the table does not hold.  The request has
\* written nothing by then and the step writes nothing: no status is changed.
C21_FailedRegistryReadIsServerError ==
  /\ [](\A p \in Procs :
          pc[p] \in {"v_source", "v_lead"} =>
            /\ loc[p].lead = NoLead
            /\ \A e \in events : e.req # loc[p].rid)
  /\ [][\A p \in Procs :
          (pc[p] \in {"v_source", "v_lead"} /\ pc'[p] = "done") =>
            /\ isValidStatus(ValidatedValue(p)) =>
                 /\ resp'[p].status >= 500
                 /\ resp'[p].code # "INVALID_STATUS"
            /\ resp'[p].code = "INVALID_STATUS" => ~isValidStatus(ValidatedValue(p))
            /\ UNCHANGED <<leads, source, events, emails>>]_vars

\* A request has been answered 500 for the failed read, on untouched tables.
C21_Witness ==
  \E p \in Procs :
    /\ impl = "adminInbox"
    /\ resp[p] = [status |-> 500, code |-> "SERVER_ERROR", detail |-> "storage"]
    /\ leads = {} /\ events = {} /\ emails = 0
    /\ \A k \in SourceKeys : source[k].status = "new"

StudentStored(id) == \E s \in diploma_students : s.id = id

\* C22: once the student row is inserted and an invite is being sent, the
\* creation can no longer fail: whether the send throws or the update of the
\* invite status fails, the request ends with 201 for that student, the row
\* is still stored, and invite reports the send (requested, and ok without
\* error after an accepted send, error without ok after a failed one).
C22_InviteFailureKeepsStudent ==
  /\ [](\A p \in Procs :
          /\ dPc[p] \in {"c_send", "c_record"} => StudentStored(dLoc[p].student)
          /\ dOut[p].status = 201 => StudentStored(dOut[p].student))
  /\ [][\A p \in Procs :
          (dPc[p] \in {"c_send", "c_record"} /\ dPc'[p] = "done") =>
            /\ dOut'[p].status = 201
            /\ dOut'[p].student = dLoc[p].student
            /\ dOut'[p].invite.requested
            /\ ~dOut'[p].invite.skipped
            /\ dPc[p] = "c_send" =>
                 /\ ~dOut'[p].invite.ok
                 /\ dOut'[p].invite.error
                 /\ welcomeSent' = welcomeSent
            /\ dPc[p] = "c_record" =>
                 /\ dOut'[p].invite.ok
                 /\ ~dOut'[p].invite.error]_vars

\* One creation answered 201 after its send failed, another after its invite
\* status could not be stored.
C22_Witness ==
  \E p, q \in Procs :
    /\ dOut[p].status = 201 /\ dOut[p].invite.error /\ StudentStored(dOut[p].student)
    /\ dOut[q].status = 201 /\ dOut[q].invite.ok
    /\ ~StudentById(dOut[q].student).invited
    /\ welcomeSent = 1

SeedEventsOf(id) == {e \in EventsOf(id) : e.title = "Lead created"}

C24_AnActiveAdminRemains == ActiveStaff # {}

StoredStatus(id) == (CHOOSE l \in leads : l.id = id).status

\* What C25 asks of a step of request p: the status update of the mutator
\* (and of the PATCH of websiteAdminInbox) finds the stored status equal to
\* the from_status its event will carry, the held lead's, and leaves it equal
\* to the to_status; the event then written carries these two values.
StatusEventMatches(p) ==
  LET id == loc[p].lead.id IN
  /\ (pc[p] = "m_update" /\ pc'[p] \in {"m_evstatus", "m_evassign"}
        /\ loc[p].updates.status # Absent) =>
       /\ StoredStatus(id) = loc[p].lead.status
       /\ StoredStatus(id)' = loc[p].updates.status
  /\ (pc[p] = "m_evstatus" /\ pc'[p] # pc[p]) =>
       \A e \in events' \ events :
         e.from_status = loc[p].lead.status /\ e.to_status = loc[p].updates.status
  /\ (pc[p] = "wp_leadupd" /\ pc'[p] = "wp_event") =>
       /\ StoredStatus(id) = loc[p].lead.status
       /\ StoredStatus(id)' = loc'[p].updated.status
  /\ (pc[p] = "wp_event" /\ pc'[p] # pc[p]) =>
       \A e \in events' \ events :
         e.from_status = loc[p].lead.status /\ e.to_status = loc[p].updated.status

\* C25: every status_change event has from_status equal to the lead's stored
\* status just before the update it records and to_status equal to the stored
\* status just after it, also when requests on the same lead interleave.
C25_StatusEventMatchesStoredChange ==
  [][\A p \in Procs : StatusEventMatches(p)]_vars

\* The requests that have logged an update of lead id: 'Assignment changed'
\* is written by the mutator for an assignment it has stored, 'Updated' by the
\* PATCH of websiteAdminInbox for the lead update it has stored.
LoggedUpdatesOf(id) ==
  {e.req : e \in {f \in EventsOf(id) : f.title \in {"Assignment changed", "Updated"}}}

\* Every request started so far was a PATCH on the lead of k that stored and
\* logged its update, and all of them have been answered 200.
PatchesCompleted(l) ==
  /\ started > 0
  /\ Cardinality(LoggedUpdatesOf(l.id)) = started
  /\ \A p \in Procs :
       /\ pc[p] \in {"idle", "done"}
       /\ pc[p] = "done" => resp[p].status = 200

\* C26: once the PATCH requests on a source row have all completed with
\* success, one after the other or concurrently, the lead's assigned_to equals
\* the source row's assigned_to.
C26_MirroringAgrees ==
  \A k \in SourceKeys :
    \A l \in LeadsFor(k) :
      PatchesCompleted(l) => l.assigned_to = source[k].assigned_to

\* C27: every lead, and every lead_events row through its lead, refers to a
\* source row that exists: no endpoint creates either for a (source_table,
\* source_id) under which there is no source row.
C27_LeadsHaveSourceRows ==
  /\ \A l \in leads : <<l.source_table, l.source_row_id>> \in DOMAIN source
  /\ \A e \in events :
       \A l \in leads :
         l.id = e.lead_id => <<l.source_table, l.source_row_id>> \in DOMAIN source

\* C28: whenever requireWebsiteStaff admits a request, the staff row it
\* attaches has auth0_sub equal to the token's subject; a token whose e-mail
\* matches a row linked to another subject is not admitted.
C28_AdmittedRowIsTheSubjects ==
  \A p \in Procs :
    (gateImpl = "requireWebsiteStaff" /\ gateOut[p].status = 200) =>
      gateOut[p].staff.auth0_sub = gateOut[p].token.sub

\* C29: a diploma_students row that has an auth0_sub keeps it through every
\* step of every link-auth0 request, also when two first link requests for
\* the same e-mail interleave; and a request that finds the row of its e-mail
\* linked to another subject is answered 409 ALREADY_LINKED.
C29_LinkedSubjectIsKept ==
  /\ [][\A s \in diploma_students :
          ~Falsy(s.auth0_sub) =>
            \E t \in diploma_students' : t.id = s.id /\ t.auth0_sub = s.auth0_sub]_vars
  /\ [][\A p \in Procs :
          (dPc[p] = "l_find" /\ dPc'[p] = "done" /\ dOut'[p].status \notin {404, 500}) =>
            \E s \in StudentsByEmail(dLoc[p].email) :
              /\ ~Falsy(s.auth0_sub)
              /\ dOut'[p].code = IF s.auth0_sub = dLoc[p].sub THEN "ALREADY"
                                 ELSE "ALREADY_LINKED"
              /\ UNCHANGED diploma_students]_vars

\* A reply body that asks for a status inbox_status does not hold.
InvalidReply(l) ==
  /\ l.op = "reply"
  /\ \/ ~Falsy(l.body.source_status) /\ ~isValidStatus(l.body.source_status)
     \/ ~Falsy(l.body.lead_status) /\ ~isValidStatus(l.body.lead_status)

\* C30: a reply whose set_source_status or set_lead_status is no valid status
\* code has no effect in any of its steps (no e-mail, no lead, no lead_events
\* row, no change of a lead or source row) and ends with a 400 response (or
\* with the error of a storage call that failed before the validation).
C30_InvalidReplyHasNoEffect ==
  [][\A p \in Procs :
       (InvalidReply(loc[p]) /\ pc'[p] # pc[p]) =>
         /\ UNCHANGED <<emails, leads, events, source>>
         /\ pc'[p] = "done" =>
              \/ resp'[p].status = 400
              \/ resp'[p].detail = "storage"]_vars

====
